---- MODULE Spec2Model ----
(***************************************************************************)
(* A model of the storage-client layer of vishwa_labs_fastapi_utils.cloud: *)
(* the provider clients (GCP and Azure, blocking and suspend-capable), the *)
(* client factory and the cloud-URL parser, over an abstract object store  *)
(* that stands for the vendor services.                                    *)
(*                                                                         *)
(* A Python str is a sequence of one-character strings, a bytes value a     *)
(* sequence of integers 0..255, so that split, startswith and "in" are      *)
(* computed character by character as the code computes them.              *)
(***************************************************************************)
EXTENDS Integers, Sequences, FiniteSets, TLC

\* Python's None: a sequence no character string equals.
None == <<"None">>

(***************************************************************************)
(* String literals of the source.                                          *)
(***************************************************************************)
HttpsScheme == <<"h", "t", "t", "p", "s", ":", "/", "/">>
GsScheme == <<"g", "s", ":", "/", "/">>
S3Scheme == <<"s", "3", ":", "/", "/">>
GcsHost == <<"s", "t", "o", "r", "a", "g", "e", ".", "g", "o", "o", "g", "l", "e", "a", "p", "i", "s", ".", "c", "o", "m">>
AzureHostSuffix == <<".", "b", "l", "o", "b", ".", "c", "o", "r", "e", ".", "w", "i", "n", "d", "o", "w", "s", ".", "n", "e", "t">>
AzureHostMark == <<"b", "l", "o", "b", ".", "c", "o", "r", "e", ".", "w", "i", "n", "d", "o", "w", "s", ".", "n", "e", "t">>
S3HostMark == <<"s", "3", ".", "a", "m", "a", "z", "o", "n", "a", "w", "s", ".", "c", "o", "m">>
S3HostSuffix == <<".", "s", "3", ".", "a", "m", "a", "z", "o", "n", "a", "w", "s", ".", "c", "o", "m">>
HttpPrefix == <<"h", "t", "t", "p">>
Slash == <<"/">>
DotS3 == <<".", "s", "3">>
HttpsMode == <<"h", "t", "t", "p", "s">>
ProvGcp == <<"g", "c", "p">>
ProvGcs == <<"g", "c", "s">>
ProvAzure == <<"a", "z", "u", "r", "e">>
ProvAz == <<"a", "z">>

(***************************************************************************)
(* Python str and bytes operations, computed as CPython computes them.     *)
(***************************************************************************)
\* The printable ASCII characters, chr(32) .. chr(126), in code order (the
\* double quote, the backslash and the backquote are written by name).
AsciiChars ==
  << " ", "!", "dquote", "#", "$", "%", "&", "'", "(", ")", "*", "+",
     ",", "-", ".", "/", "0", "1", "2", "3", "4", "5", "6", "7",
     "8", "9", ":", ";", "<", "=", ">", "?", "@", "A", "B", "C",
     "D", "E", "F", "G", "H", "I", "J", "K", "L", "M", "N", "O",
     "P", "Q", "R", "S", "T", "U", "V", "W", "X", "Y", "Z", "[",
     "bslash", "]", "^", "_", "bquote", "a", "b", "c", "d", "e", "f", "g",
     "h", "i", "j", "k", "l", "m", "n", "o", "p", "q", "r", "s",
     "t", "u", "v", "w", "x", "y", "z", "{", "|", "}", "~" >>

\* chr(n) for a byte n; a byte outside printable ASCII decodes to U+FFFD.
Chr(n) == IF n >= 32 /\ n <= 126 THEN AsciiChars[n - 31] ELSE "U+FFFD"

\* ord(c), or -1 for a character outside printable ASCII.
Ord(c) == IF \E i \in 1..Len(AsciiChars) : AsciiChars[i] = c
          THEN 31 + (CHOOSE i \in 1..Len(AsciiChars) : AsciiChars[i] = c)
          ELSE -1

\* bool(x) of an Optional[str]: None and "" are falsy.
Truthy(x) == x # None /\ x # <<>>

\* x or y
PyOr(x, y) == IF Truthy(x) THEN x ELSE y

\* s.startswith(p)
StartsWith(s, p) == Len(p) <= Len(s) /\ SubSeq(s, 1, Len(p)) = p

\* s.endswith(p)
EndsWith(s, p) == Len(p) <= Len(s) /\ SubSeq(s, Len(s) - Len(p) + 1, Len(s)) = p

\* s.find(sub) + 1: the position of the first occurrence, 0 when there is none.
Find(s, sub) ==
  LET hits == {i \in 1..(Len(s) - Len(sub) + 1) : SubSeq(s, i, i + Len(sub) - 1) = sub}
  IN  IF hits = {} THEN 0 ELSE CHOOSE i \in hits : \A j \in hits : i <= j

\* sub in s
Contains(s, sub) == Find(s, sub) # 0

\* s.split(sep, 1)[0]
SplitOnceHead(s, sep) ==
  LET i == Find(s, sep) IN IF i = 0 THEN s ELSE SubSeq(s, 1, i - 1)

\* s.split(sep, 1)[-1]
SplitOnceLast(s, sep) ==
  LET i == Find(s, sep) IN IF i = 0 THEN s ELSE SubSeq(s, i + Len(sep), Len(s))

\* len(s.split(sep, 1)) > 1
SplitsOnce(s, sep) == Find(s, sep) # 0

\* s.split(sep)[-1]: what follows the last separator of the left-to-right scan.
RECURSIVE SplitLast(_, _)
SplitLast(s, sep) ==
  LET i == Find(s, sep)
  IN  IF i = 0 THEN s ELSE SplitLast(SubSeq(s, i + Len(sep), Len(s)), sep)

\* s.lstrip(c) for a one-character c
RECURSIVE LStrip(_, _)
LStrip(s, c) == IF s # <<>> /\ Head(s) = c THEN LStrip(Tail(s), c) ELSE s

\* s.rstrip(c) for a one-character c
RECURSIVE RStrip(_, _)
RStrip(s, c) ==
  IF s # <<>> /\ s[Len(s)] = c THEN RStrip(SubSeq(s, 1, Len(s) - 1), c) ELSE s

\* c.lower() for one character
LowerChar(c) ==
  IF c \in {AsciiChars[n - 31] : n \in 65..90} THEN Chr(Ord(c) + 32) ELSE c

\* s.lower()
Lower(s) == [i \in 1..Len(s) |-> LowerChar(s[i])]

\* data.decode("utf-8") on the payloads of the model: ASCII bytes decode to
\* their characters; a byte 0xF8..0xFF occurs in no UTF-8 encoding, so the
\* decode raises UnicodeDecodeError.
Utf8Valid(data) == \A i \in 1..Len(data) : data[i] < 128

Utf8Decode(data) == [i \in 1..Len(data) |-> Chr(data[i])]

(***************************************************************************)
(* urllib.parse, as far as parse_cloud_url and the Azure SDK use it.       *)
(***************************************************************************)
UpperChars == {Chr(n) : n \in 65..90}
LowerChars == {Chr(n) : n \in 97..122}
DigitChars == {Chr(n) : n \in 48..57}
HexChars == DigitChars \cup {Chr(n) : n \in 65..70} \cup {Chr(n) : n \in 97..102}

IsAlpha(c) == c \in UpperChars \cup LowerChars

IsDigit(c) == c \in DigitChars

\* urllib.parse.scheme_chars
IsSchemeChar(c) == IsAlpha(c) \/ IsDigit(c) \/ c \in {"+", "-", "."}

IsHex(c) == c \in HexChars

HexVal(c) ==
  IF c \in DigitChars THEN Ord(c) - 48
  ELSE IF c \in LowerChars THEN Ord(c) - 87 ELSE Ord(c) - 55

\* urllib.parse.unquote: every %XX becomes the character of that byte.
RECURSIVE Unquote(_)
Unquote(s) ==
  IF s = <<>> THEN <<>>
  ELSE IF s[1] = "%" /\ Len(s) >= 3 /\ IsHex(s[2]) /\ IsHex(s[3])
       THEN <<Chr(16 * HexVal(s[2]) + HexVal(s[3]))>> \o Unquote(SubSeq(s, 4, Len(s)))
       ELSE <<s[1]>> \o Unquote(Tail(s))

\* The position of the first of the characters cs in s, Len(s) + 1 when none occurs.
FirstOf(s, cs) ==
  LET hits == {i \in 1..Len(s) : s[i] \in cs}
  IN  IF hits = {} THEN Len(s) + 1 ELSE CHOOSE i \in hits : \A j \in hits : i <= j

\* The position of the last occurrence of character c in s, 0 when there is none.
LastOf(s, c) ==
  LET hits == {i \in 1..Len(s) : s[i] = c}
  IN  IF hits = {} THEN 0 ELSE CHOOSE i \in hits : \A j \in hits : i >= j

\* urllib.parse.uses_params
UsesParams ==
  { <<>>, <<"f", "t", "p">>, <<"h", "t", "t", "p">>, <<"h", "t", "t", "p", "s">>,
    <<"s", "f", "t", "p">> }

\* urllib.parse.urlparse(url): scheme, netloc and path (query, fragment and
\* parameters are split off and dropped, as parse_cloud_url never reads them).
\* The steps of urlsplit follow one another as operators, each handing what
\* it has split off to the next.

\* Where the ";parameters" of the last path segment start in p, 0 for none.
ParamsCut(p) ==
  LET k == Find(SubSeq(p, LastOf(p, "/") + 1, Len(p)), <<";">>)
  IN  IF k = 0 THEN 0 ELSE LastOf(p, "/") + k

UrlResult(scheme, netloc, p) ==
  [scheme |-> scheme, netloc |-> netloc,
   path |-> IF scheme \in UsesParams /\ ParamsCut(p) # 0
            THEN SubSeq(p, 1, ParamsCut(p) - 1) ELSE p]

\* url.split("#", 1)[0].split("?", 1)[0]
UrlDropQuery(scheme, netloc, rest) ==
  UrlResult(scheme, netloc, SplitOnceHead(SplitOnceHead(rest, <<"#">>), <<"?">>))

\* _splitnetloc: the netloc ends at the first "/", "?" or "#".
UrlSplitNetloc(scheme, after, delim) ==
  UrlDropQuery(scheme, SubSeq(after, 1, delim - 1), SubSeq(after, delim, Len(after)))

UrlAfterScheme(scheme, rest) ==
  IF StartsWith(rest, <<"/", "/">>)
  THEN UrlSplitNetloc(scheme, SubSeq(rest, 3, Len(rest)),
                      FirstOf(SubSeq(rest, 3, Len(rest)), {"/", "?", "#"}))
  ELSE UrlDropQuery(scheme, <<>>, rest)

\* url[:i] is a scheme when it starts with a letter and holds scheme characters.
UrlHasScheme(url, i) ==
  i > 1 /\ IsAlpha(url[1]) /\ \A j \in 1..(i - 1) : IsSchemeChar(url[j])

UrlSplitScheme(url, i) ==
  IF UrlHasScheme(url, i)
  THEN UrlAfterScheme(Lower(SubSeq(url, 1, i - 1)), SubSeq(url, i + 1, Len(url)))
  ELSE UrlAfterScheme(<<>>, url)

UrlParse(url) == UrlSplitScheme(url, Find(url, <<":">>))

\* s.replace(old, "")
RECURSIVE RemoveAll(_, _)
RemoveAll(s, old) ==
  LET i == Find(s, old)
  IN  IF i = 0 THEN s
      ELSE SubSeq(s, 1, i - 1) \o RemoveAll(SubSeq(s, i + Len(old), Len(s)), old)

\* re.match(r"^(?P<name>[^.]+)SUFFIX$", netloc): the group, or None.
HostLabel(label, matches) ==
  IF matches /\ label # <<>> /\ ~Contains(label, <<".">>) THEN label ELSE None

HostLabelBefore(netloc, suffix) ==
  HostLabel(SubSeq(netloc, 1, Len(netloc) - Len(suffix)), EndsWith(netloc, suffix))

(***************************************************************************)
(* cloud/utils.py                                                          *)
(***************************************************************************)
Descriptor(exc, provider, account, container, blob, clean) ==
  [exc |-> exc, provider |-> provider, storage_account_name |-> account,
   container |-> container, blob |-> blob, clean_url |-> clean]

\* parts[1] if len(parts) > 1 else None, for parts = s.split("/", 1)
SecondPart(s) == IF SplitsOnce(s, Slash) THEN SplitOnceLast(s, Slash) ELSE None

\* s.replace(scheme, "").split("/", 1): bucket and blob of a gs:// or s3:// URL
SchemeForm(provider, stripped, decoded) ==
  Descriptor("none", provider, SplitOnceHead(stripped, Slash), None,
             SecondPart(stripped), decoded)

\* The body of parse_cloud_url once decoded = unquote(url), the parsed.netloc,
\* netloc = parsed.netloc.lower() and path = parsed.path.lstrip("/") are known.
ClassifyUrl(url, decoded, raw_netloc, netloc, path) ==
  IF Contains(netloc, AzureHostMark)
  THEN Descriptor("none", "azure", HostLabelBefore(netloc, AzureHostSuffix),
                  SplitOnceHead(path, Slash), SecondPart(path), decoded)
  ELSE IF Contains(netloc, GcsHost)
  THEN Descriptor("none", "gcp", SplitOnceHead(path, Slash), None,
                  SecondPart(path), decoded)
  ELSE IF StartsWith(url, GsScheme)
  THEN SchemeForm("gcp", RemoveAll(url, GsScheme), decoded)
  ELSE IF Contains(netloc, S3HostMark) \/ EndsWith(netloc, S3HostSuffix)
  THEN Descriptor("none", "aws",
                  IF HostLabelBefore(netloc, S3HostSuffix) # None
                  THEN HostLabelBefore(netloc, S3HostSuffix)
                  ELSE SplitOnceHead(raw_netloc, DotS3),
                  None, IF Truthy(path) THEN path ELSE None, decoded)
  ELSE IF StartsWith(url, S3Scheme)
  THEN SchemeForm("aws", RemoveAll(url, S3Scheme), decoded)
  ELSE Descriptor("none", "unknown", None, None,
                  IF Truthy(path) THEN path ELSE None, decoded)

ClassifyParsed(url, decoded, parsed) ==
  ClassifyUrl(url, decoded, parsed.netloc, Lower(parsed.netloc), LStrip(parsed.path, "/"))

ParseDecoded(url, decoded) == ClassifyParsed(url, decoded, UrlParse(decoded))

parse_cloud_url(url) ==
  IF ~Truthy(url) THEN Descriptor("ValueError", "none", None, None, None, <<>>)
  ELSE ParseDecoded(url, Unquote(url))

(***************************************************************************)
(* The process environment and keyword arguments.                          *)
(***************************************************************************)
EnvVars ==
  { "STORAGE_PROVIDER", "GCP_STORAGE_BUCKET_NAME", "GCP_STORAGE_CONTAINER_NAME",
    "STORAGE_URL_MODE", "AZURE_STORAGE_ACCOUNT_URL", "AZURE_STORAGE_ACCOUNT_NAME",
    "AZURE_STORAGE_CONTAINER_NAME", "GCP_SERVICE_ACCOUNT_KEY_PATH",
    "AZURE_TENANT_ID", "AZURE_CLIENT_ID", "AZURE_CLIENT_SECRET",
    "PROMETHEUS_MULTIPROC_DIR" }

\* os.getenv(name, default) in environment e (e[name] = None: not set)
getenv(e, name, default) == IF e[name] # None THEN e[name] ELSE default

\* The value of keyword argument n in the call's **kwargs, None when not passed.
Arg(kw, n) == IF n \in DOMAIN kw THEN kw[n] ELSE None

PyTrue == <<"True">>
PyFalse == <<"False">>

(***************************************************************************)
(* Client objects. One record shape serves both providers; the fields a    *)
(* provider does not have stay None.                                       *)
(***************************************************************************)
NoClient ==
  [kind |-> "none", async |-> FALSE, bucket_name |-> None, container_prefix |-> <<>>,
   return_https_url |-> FALSE, account_name |-> None, account_url |-> None,
   primary_hostname |-> None, container_name |-> None]

\* The outcome of a constructor or factory call: the exception raised ("none"
\* when it returned) and the client returned.
Raised(exc) == [exc |-> exc, client |-> NoClient]
Built(c) == [exc |-> "none", client |-> c]

\* The parameters GCPStorageClient.__init__ and GCPStorageClientAsync.__init__ take.
GCPParams == {"storage_account_name", "container_name", "return_https_url"}

\* GCPStorageClient.__init__ / GCPStorageClientAsync.__init__ called with **kw.
\* Credential resolution (_get_storage_client) is taken to succeed.
GCPBuild(async, kw, bucket, cp, https) ==
  IF ~(DOMAIN kw \subseteq GCPParams) THEN Raised("TypeError")
  ELSE IF ~Truthy(bucket) THEN Raised("ValueError")
  ELSE Built([kind |-> "gcp", async |-> async, bucket_name |-> bucket,
              container_prefix |-> IF Truthy(cp) /\ ~EndsWith(cp, Slash)
                                   THEN cp \o Slash ELSE cp,
              return_https_url |-> https,
              account_name |-> None, account_url |-> None,
              primary_hostname |-> None, container_name |-> None])

GCPClientInit(async, kw, e) ==
  GCPBuild(async, kw,
           PyOr(Arg(kw, "storage_account_name"), e["GCP_STORAGE_BUCKET_NAME"]),
           PyOr(Arg(kw, "container_name"), getenv(e, "GCP_STORAGE_CONTAINER_NAME", <<>>)),
           IF Arg(kw, "return_https_url") # None
           THEN Arg(kw, "return_https_url") = PyTrue
           ELSE Lower(getenv(e, "STORAGE_URL_MODE", HttpsMode)) = HttpsMode)

\* The parameters AzureBlobServiceClient.__init__ and its async twin take.
AzureParams == {"container_name", "storage_account_url", "storage_account_name"}

\* storage_account_url.split("//")[1].split(".")[0], None when it raises.
AccountNameFromUrl(url) ==
  IF ~Contains(url, <<"/", "/">>) THEN None
  ELSE SplitOnceHead(SplitOnceHead(SplitOnceLast(url, <<"/", "/">>), <<"/", "/">>), <<".">>)

\* azure.storage.blob: the host a BlobServiceClient(account_url=url) talks to
\* (its primary_hostname). A URL without "http" in front gets "https://";
\* trailing "/" is dropped.
EndpointNetloc(url) ==
  UrlParse(RStrip(IF StartsWith(Lower(url), HttpPrefix) THEN url ELSE HttpsScheme \o url,
                  "/")).netloc

\* A constructor that takes any container name, an unset one included.
AzureBuildAnyContainer(async, kw, url, san, host, cont) ==
  IF ~(DOMAIN kw \subseteq AzureParams) THEN Raised("TypeError")
  ELSE IF ~Truthy(url) THEN Raised("ValueError")
  ELSE IF ~Truthy(san) THEN Raised("ValueError")
  ELSE IF host = <<>> THEN Raised("ValueError")
  ELSE Built([kind |-> "azure", async |-> async, bucket_name |-> None,
              container_prefix |-> <<>>, return_https_url |-> TRUE,
              account_name |-> san, account_url |-> url,
              primary_hostname |-> host, container_name |-> cont])

\* The client once every attribute is resolved. The SDK's BlobServiceClient
\* refuses a URL without a host, its get_container_client an empty or missing
\* container name (both ValueError).
AzureBuild(async, kw, url, san, host, cont) ==
  IF ~(DOMAIN kw \subseteq AzureParams) THEN Raised("TypeError")
  ELSE IF ~Truthy(url) THEN Raised("ValueError")
  ELSE IF ~Truthy(san) THEN Raised("ValueError")
  ELSE IF host = <<>> THEN Raised("ValueError")
  ELSE IF ~Truthy(cont) THEN Raised("ValueError")
  ELSE Built([kind |-> "azure", async |-> async, bucket_name |-> None,
              container_prefix |-> <<>>, return_https_url |-> TRUE,
              account_name |-> san, account_url |-> url,
              primary_hostname |-> host, container_name |-> cont])

\* The service endpoint: the sync client connects to storage_account_url, the
\* async one to os.getenv("AZURE_STORAGE_ACCOUNT_URL") or storage_account_url.
AzureEndpoint(async, kw, url, san, used, cont) ==
  AzureBuild(async, kw, url, san,
             IF Truthy(used) THEN EndpointNetloc(used) ELSE <<>>, cont)

\* storage_account_name falls back to the environment, then to the URL's host.
AzureAccount(async, kw, url, san, e) ==
  AzureEndpoint(async, kw, url,
                IF ~Truthy(san) /\ Truthy(url) THEN AccountNameFromUrl(url) ELSE san,
                IF async THEN PyOr(e["AZURE_STORAGE_ACCOUNT_URL"], url) ELSE url,
                IF Arg(kw, "container_name") = None
                THEN e["AZURE_STORAGE_CONTAINER_NAME"] ELSE Arg(kw, "container_name"))

\* storage_account_url is built from storage_account_name when only that is given.
AzureAccountUrl(san, url) ==
  IF Truthy(san) /\ ~Truthy(url) THEN HttpsScheme \o san \o AzureHostSuffix ELSE url

\* AzureBlobServiceClient.__init__ / AzureBlobServiceClientAsync.__init__
\* called with **kw. Credential resolution is taken to succeed.
AzureClientInit(async, kw, e) ==
  AzureAccount(async, kw,
               PyOr(AzureAccountUrl(Arg(kw, "storage_account_name"),
                                    Arg(kw, "storage_account_url")),
                    e["AZURE_STORAGE_ACCOUNT_URL"]),
               PyOr(Arg(kw, "storage_account_name"), e["AZURE_STORAGE_ACCOUNT_NAME"]),
               e)

(***************************************************************************)
(* cloud/storage.py: the client factory.                                   *)
(***************************************************************************)
\* get_storage_client(storage_provider, **kw)
get_storage_client(sp, kw, e) ==
  LET provider == IF Truthy(sp) THEN sp
                  ELSE Lower(getenv(e, "STORAGE_PROVIDER", ProvAzure))
  IN  IF provider \in {ProvGcp, ProvGcs} THEN GCPClientInit(FALSE, kw, e)
      ELSE AzureClientInit(FALSE, kw, e)

\* get_storage_client_async(storage_provider, **kw)
get_storage_client_async(sp, kw, e) ==
  LET provider == Lower(PyOr(sp, getenv(e, "STORAGE_PROVIDER", ProvAzure)))
  IN  IF provider \in {ProvGcp, ProvGcs} THEN GCPClientInit(TRUE, kw, e)
      ELSE IF provider \in {ProvAzure, ProvAz} THEN AzureClientInit(TRUE, kw, e)
      ELSE Raised("ValueError")

\* The keyword arguments both reader factories pass on.
ReaderKwargs(info) ==
  [n \in {"storage_account_name", "container_name"} |->
     IF n = "storage_account_name" THEN info.storage_account_name ELSE info.container]

\* The provider dispatch both reader factories make on parse_cloud_url's result.
ReaderForInfo(async, info, e) ==
  IF info.exc # "none" THEN Raised(info.exc)
  ELSE IF info.provider = "azure" THEN AzureClientInit(async, ReaderKwargs(info), e)
  ELSE IF info.provider = "gcp" THEN GCPClientInit(async, ReaderKwargs(info), e)
  ELSE Raised("ValueError")

\* get_reader_client_from_url(url) (async = FALSE) and
\* get_reader_client_from_url_async(url) (async = TRUE)
get_reader_client_from_url(async, url, e) == ReaderForInfo(async, parse_cloud_url(url), e)

(***************************************************************************)
(* The world a client call acts on: the vendor services' objects, the      *)
(* local files and directories, and what the web serves.                   *)
(*   w.store : object -> bytes, for the objects that exist                 *)
(*   w.files : path -> bytes, for the local files that exist               *)
(*   w.dirs  : the local directories that exist                            *)
(*   w.web   : URL -> bytes, for the URLs an HTTP GET answers with 200     *)
(***************************************************************************)
GcsObject(bucket, key) == [svc |-> "gcs", acct |-> bucket, cont |-> <<>>, key |-> key]

AzureObject(netloc, container, key) ==
  [svc |-> "azure", acct |-> Lower(netloc), cont |-> container, key |-> key]

NoObject == [svc |-> "none", acct |-> <<>>, cont |-> <<>>, key |-> <<>>]

Has(w, o) == o \in DOMAIN w.store

Put(w, o, data) ==
  [w EXCEPT !.store = [x \in (DOMAIN w.store) \cup {o} |->
                         IF x = o THEN data ELSE w.store[x]]]

FileExists(w, p) == p \in DOMAIN w.files

WriteFile(w, p, data) ==
  [w EXCEPT !.files = [x \in (DOMAIN w.files) \cup {p} |->
                         IF x = p THEN data ELSE w.files[x]]]

RemoveFile(w, p) ==
  [w EXCEPT !.files = [x \in (DOMAIN w.files) \ {p} |-> w.files[x]]]

\* Path(p).name
PathName(p) == SubSeq(p, LastOf(p, "/") + 1, Len(p))

\* Path(p).parent, for an absolute path below the root
PathParent(p) == SubSeq(p, 1, LastOf(p, "/") - 1)

\* Path(p).parent.mkdir(parents=True, exist_ok=True)
MkdirParents(w, p) ==
  [w EXCEPT !.dirs = w.dirs \cup {SubSeq(p, 1, i - 1) : i \in {j \in 2..Len(p) : p[j] = "/"}}]

\* open(p, "wb") succeeds when the directory of p exists.
CanCreate(w, p) == PathParent(p) \in w.dirs

\* The outcome of a client call: the exception raised ("none" when the call
\* returned), the URL, bytes or text returned, the object the call addressed
\* and the world after the call.
R(exc, url, data, text, obj, w) ==
  [exc |-> exc, url |-> url, data |-> data, text |-> text, obj |-> obj, w |-> w]

(***************************************************************************)
(* cloud/gcs.py and cloud/gcs_async.py                                     *)
(***************************************************************************)
IsGcsUrl(s) == Contains(s, GcsHost) \/ StartsWith(s, GsScheme)

\* GCPStorageClient._resolve_blob_name
GCPResolveSync(c, s) ==
  IF IsGcsUrl(s) THEN SplitOnceLast(s, c.bucket_name \o Slash) ELSE s

\* GCPStorageClientAsync._resolve_blob_name
GCPResolveAsync(c, s) ==
  IF IsGcsUrl(s) THEN SplitLast(s, c.bucket_name \o Slash) ELSE s

GCPResolveBlobName(c, s) == IF c.async THEN GCPResolveAsync(c, s) ELSE GCPResolveSync(c, s)

\* _prefixed_blob_name
GCPPrefixedBlobName(c, s) ==
  IF IsGcsUrl(s) THEN GCPResolveBlobName(c, s)
  ELSE IF Truthy(c.container_prefix) THEN c.container_prefix \o s ELSE s

\* _format_url
GCPUrlOf(c, full) ==
  IF c.return_https_url
  THEN HttpsScheme \o GcsHost \o Slash \o c.bucket_name \o Slash \o full
  ELSE GsScheme \o c.bucket_name \o Slash \o full

GCPFormatUrl(c, blob_name, already_prefixed) ==
  GCPUrlOf(c, IF already_prefixed THEN blob_name ELSE GCPPrefixedBlobName(c, blob_name))

\* if not overwrite and blob.exists(): raise FileExistsError
GCPExistsGuard(c, w, key, overwrite) == ~overwrite /\ Has(w, GcsObject(c.bucket_name, key))

\* An upload that the service refuses when the object exists (a write with
\* the precondition "no live generation").
GCPWriteIfAbsent(c, w, key, data) ==
  IF Has(w, GcsObject(c.bucket_name, key))
  THEN R("FileExistsError", <<>>, <<>>, <<>>, GcsObject(c.bucket_name, key), w)
  ELSE R("none", GCPUrlOf(c, key), <<>>, <<>>, GcsObject(c.bucket_name, key),
         Put(w, GcsObject(c.bucket_name, key), data))

\* blob.upload_from_string(data) and the URL returned for it
GCPWrite(c, w, key, data) ==
  R("none", GCPFormatUrl(c, key, TRUE), <<>>, <<>>, GcsObject(c.bucket_name, key),
    Put(w, GcsObject(c.bucket_name, key), data))

GCPAlreadyExists(c, w, key) ==
  R("FileExistsError", <<>>, <<>>, <<>>, GcsObject(c.bucket_name, key), w)

\* The body of upload_bytes and upload_stream once blob_name is prefixed.
GCPUploadData(c, w, key, data, overwrite) ==
  IF GCPExistsGuard(c, w, key, overwrite) THEN GCPAlreadyExists(c, w, key)
  ELSE GCPWrite(c, w, key, data)

\* upload_bytes(data, blob_name, overwrite)
GCPUploadBytes(c, w, data, blob_name, overwrite) ==
  GCPUploadData(c, w, GCPPrefixedBlobName(c, blob_name), data, overwrite)

\* upload_stream(stream, blob_name, overwrite); the stream is read to its end.
GCPUploadStream(c, w, stream, blob_name, overwrite) ==
  GCPUploadData(c, w, GCPPrefixedBlobName(c, blob_name), stream, overwrite)

\* The body of upload_file once blob_name is prefixed: the exists check comes
\* before upload_from_filename opens the local file.
GCPUploadPath(c, w, key, path, overwrite) ==
  IF GCPExistsGuard(c, w, key, overwrite) THEN GCPAlreadyExists(c, w, key)
  ELSE IF ~FileExists(w, path)
  THEN R("FileNotFoundError", <<>>, <<>>, <<>>, GcsObject(c.bucket_name, key), w)
  ELSE GCPWrite(c, w, key, w.files[path])

\* upload_file(local_file_path, blob_name, overwrite)
GCPUploadFile(c, w, path, blob_name, overwrite) ==
  GCPUploadPath(c, w, GCPPrefixedBlobName(c, PyOr(blob_name, PathName(path))),
                path, overwrite)

\* The body of upload_from_url once blob_name is prefixed: fetch, then upload.
GCPUploadFetched(c, w, key, source_url, overwrite) ==
  IF GCPExistsGuard(c, w, key, overwrite) THEN GCPAlreadyExists(c, w, key)
  ELSE IF source_url \notin DOMAIN w.web
  THEN R(IF c.async THEN "ClientResponseError" ELSE "HTTPError",
         <<>>, <<>>, <<>>, GcsObject(c.bucket_name, key), w)
  ELSE GCPWrite(c, w, key, w.web[source_url])

\* upload_from_url(source_url, blob_name, overwrite)
GCPUploadFromUrl(c, w, source_url, blob_name, overwrite) ==
  GCPUploadFetched(c, w, GCPPrefixedBlobName(c, blob_name), source_url, overwrite)

\* blob.download_as_bytes() of object o
GCPReadBytes(w, o) ==
  IF ~Has(w, o) THEN R("NotFound", <<>>, <<>>, <<>>, o, w)
  ELSE R("none", <<>>, w.store[o], <<>>, o, w)

\* download_blob_to_bytes(blob_name_or_url)
GCPDownloadToBytes(c, w, s) ==
  GCPReadBytes(w, GcsObject(c.bucket_name, GCPResolveBlobName(c, s)))

\* _bytes_to_text(blob.download_as_bytes()) of object o
GCPReadText(w, o) ==
  IF ~Has(w, o) THEN R("NotFound", <<>>, <<>>, <<>>, o, w)
  ELSE IF ~Utf8Valid(w.store[o]) THEN R("UnicodeDecodeError", <<>>, <<>>, <<>>, o, w)
  ELSE R("none", <<>>, <<>>, Utf8Decode(w.store[o]), o, w)

\* download_blob_as_text(blob_name_or_url)
GCPDownloadAsText(c, w, s) ==
  GCPReadText(w, GcsObject(c.bucket_name, GCPResolveBlobName(c, s)))

\* blob.download_to_filename(dest) of object o, after the parent directories
\* were made (world w1). The SDK opens the file, and removes it again when the
\* object is not found.
GCPReadToFile(w1, o, dest) ==
  IF ~Has(w1, o) THEN R("NotFound", <<>>, <<>>, <<>>, o, RemoveFile(w1, dest))
  ELSE R("none", <<>>, <<>>, <<>>, o, WriteFile(w1, dest, w1.store[o]))

\* download_blob_to_file(blob_name_or_url, destination_path)
GCPDownloadToFile(c, w, s, dest) ==
  GCPReadToFile(MkdirParents(w, dest),
                GcsObject(c.bucket_name, GCPResolveBlobName(c, s)), dest)

(***************************************************************************)
(* cloud/az_blob.py and cloud/az_blob_async.py                             *)
(***************************************************************************)
\* A blob handle: the exception raised while making it, and the object it names.
Handle(exc, obj) == [exc |-> exc, obj |-> obj]

\* azure.storage.blob BlobClient.from_blob_url(url): the host is the account,
\* and the path splits into container and blob: at the first "/" for a
\* *.core.* host, into its last two segments for any other host.
AzureUrlHandle(netloc, path, cname, bname) ==
  IF netloc = <<>> THEN Handle("ValueError", NoObject)
  ELSE IF ~SplitsOnce(path, Slash) THEN Handle("ValueError", NoObject)
  ELSE IF cname = <<>> \/ bname = <<>> THEN Handle("ValueError", NoObject)
  ELSE Handle("none", AzureObject(netloc, cname, bname))

AzureUrlPath(netloc, path) ==
  IF Contains(netloc, <<".", "c", "o", "r", "e", ".">>)
  THEN AzureUrlHandle(netloc, path, Unquote(SplitOnceHead(path, Slash)),
                      Unquote(SplitOnceLast(path, Slash)))
  ELSE AzureUrlHandle(netloc, path,
                      Unquote(SplitLast(SubSeq(path, 1, LastOf(path, "/") - 1), Slash)),
                      Unquote(SubSeq(path, LastOf(path, "/") + 1, Len(path))))

AzureUrlParsed(p) == AzureUrlPath(p.netloc, LStrip(p.path, "/"))

AzureBlobFromUrl(url) == AzureUrlParsed(UrlParse(RStrip(url, "/")))

\* self._container_client.get_blob_client(blob_name)
AzureContainerBlob(c, blob_name) ==
  AzureObject(c.primary_hostname, c.container_name, blob_name)

\* _get_blob_client(blob_name_or_url)
AzureGetBlobClient(c, s) ==
  IF StartsWith(s, HttpPrefix) THEN AzureBlobFromUrl(s)
  ELSE Handle("none", AzureContainerBlob(c, s))

\* _format_url(blob_name)
AzureFormatUrl(c, blob_name) ==
  HttpsScheme \o c.account_name \o AzureHostSuffix \o Slash \o c.container_name
    \o Slash \o blob_name

\* An upload_blob that replaces an existing blob whatever overwrite says.
AzureUploadBlobUnguarded(c, w, o, data, overwrite) ==
  R("none", AzureFormatUrl(c, o.key), <<>>, <<>>, o, Put(w, o, data))

\* blob_client.upload_blob(data, overwrite=overwrite) and the URL returned
AzureUploadBlob(c, w, o, data, overwrite) ==
  IF ~overwrite /\ Has(w, o) THEN R("ResourceExistsError", <<>>, <<>>, <<>>, o, w)
  ELSE R("none", AzureFormatUrl(c, o.key), <<>>, <<>>, o, Put(w, o, data))

\* upload_bytes(data, blob_name, overwrite)
AzureUploadBytes(c, w, data, blob_name, overwrite) ==
  AzureUploadBlob(c, w, AzureContainerBlob(c, blob_name), data, overwrite)

\* upload_stream(stream, blob_name, overwrite)
AzureUploadStream(c, w, stream, blob_name, overwrite) ==
  AzureUploadBlob(c, w, AzureContainerBlob(c, blob_name), stream, overwrite)

\* The body of upload_file for blob o: the file is opened (sync) or read
\* (async) before the blob is uploaded.
AzureUploadPath(c, w, o, path, overwrite) ==
  IF ~FileExists(w, path) THEN R("FileNotFoundError", <<>>, <<>>, <<>>, o, w)
  ELSE AzureUploadBlob(c, w, o, w.files[path], overwrite)

\* upload_file(local_file_path, blob_name, overwrite)
AzureUploadFile(c, w, path, blob_name, overwrite) ==
  AzureUploadPath(c, w, AzureContainerBlob(c, PyOr(blob_name, PathName(path))),
                  path, overwrite)

\* blob_client.start_copy_from_url(source_url) on blob o: the destination is
\* replaced by a copy of the source; the copy is taken to have completed when
\* the call returns.
AzureStartCopy(c, w, o, source_url) ==
  IF source_url \notin DOMAIN w.web
  THEN R("HttpResponseError", <<>>, <<>>, <<>>, o, w)
  ELSE R("none", AzureFormatUrl(c, o.key), <<>>, <<>>, o, Put(w, o, w.web[source_url]))

\* upload_from_url(source_url, blob_name, overwrite): overwrite is not read.
AzureUploadFromUrl(c, w, source_url, blob_name, overwrite) ==
  AzureStartCopy(c, w, AzureContainerBlob(c, blob_name), source_url)

\* blob_client.download_blob().readall() through handle h
AzureReadAll(w, h) ==
  IF h.exc # "none" THEN R(h.exc, <<>>, <<>>, <<>>, h.obj, w)
  ELSE IF ~Has(w, h.obj) THEN R("ResourceNotFoundError", <<>>, <<>>, <<>>, h.obj, w)
  ELSE R("none", <<>>, w.store[h.obj], <<>>, h.obj, w)

\* download_blob_to_bytes(blob_name_or_url)
AzureDownloadToBytes(c, w, s) == AzureReadAll(w, AzureGetBlobClient(c, s))

\* _bytes_to_text(r.data) when the download r returned
AzureToText(w, r) ==
  IF r.exc # "none" THEN r
  ELSE IF ~Utf8Valid(r.data) THEN R("UnicodeDecodeError", <<>>, <<>>, <<>>, r.obj, w)
  ELSE R("none", <<>>, <<>>, Utf8Decode(r.data), r.obj, w)

\* download_blob_as_text(blob_name_or_url)
AzureDownloadAsText(c, w, s) == AzureToText(w, AzureDownloadToBytes(c, w, s))

\* AzureBlobServiceClient._download_blob_to_file: the file is opened for
\* writing first, then the blob is read into it.
AzureWriteSync(w, h, dest) ==
  IF h.exc # "none" THEN R(h.exc, <<>>, <<>>, <<>>, h.obj, w)
  ELSE IF ~CanCreate(w, dest) THEN R("FileNotFoundError", <<>>, <<>>, <<>>, h.obj, w)
  ELSE IF ~Has(w, h.obj)
  THEN R("ResourceNotFoundError", <<>>, <<>>, <<>>, h.obj, WriteFile(w, dest, <<>>))
  ELSE R("none", <<>>, <<>>, <<>>, h.obj, WriteFile(w, dest, w.store[h.obj]))

\* AzureBlobServiceClient.download_blob_to_file
AzureDownloadToFileSync(c, w, s, dest) == AzureWriteSync(w, AzureGetBlobClient(c, s), dest)

\* AzureBlobServiceClientAsync._aio_write_file: writes the file and returns
\* destination_path.
AzureAioWriteFile(w, dest, data) == WriteFile(w, dest, data)

\* AzureBlobServiceClientAsync.download_blob_to_file after the parent
\* directories were made (world w1): the blob is read, then written by
\* _aio_write_file, whose return value (the path) is entered with
\* "async with"; a path is no asynchronous context manager, so that statement
\* raises (TypeError; AttributeError before Python 3.11).
AzureWriteAsync(w, w1, h, dest) ==
  IF h.exc # "none" THEN R(h.exc, <<>>, <<>>, <<>>, h.obj, w)
  ELSE IF ~Has(w, h.obj) THEN R("ResourceNotFoundError", <<>>, <<>>, <<>>, h.obj, w1)
  ELSE R("TypeError", <<>>, <<>>, <<>>, h.obj, AzureAioWriteFile(w1, dest, w.store[h.obj]))

AzureDownloadToFileAsync(c, w, s, dest) ==
  AzureWriteAsync(w, MkdirParents(w, dest), AzureGetBlobClient(c, s), dest)

AzureDownloadToFile(c, w, s, dest) ==
  IF c.async THEN AzureDownloadToFileAsync(c, w, s, dest)
  ELSE AzureDownloadToFileSync(c, w, s, dest)

(***************************************************************************)
(* The storage-client interface (cloud/storage_base.py): each method of a  *)
(* client c, dispatched to its provider's implementation.                  *)
(***************************************************************************)
upload_bytes(c, w, data, blob_name, overwrite) ==
  IF c.kind = "gcp" THEN GCPUploadBytes(c, w, data, blob_name, overwrite)
  ELSE AzureUploadBytes(c, w, data, blob_name, overwrite)

upload_stream(c, w, stream, blob_name, overwrite) ==
  IF c.kind = "gcp" THEN GCPUploadStream(c, w, stream, blob_name, overwrite)
  ELSE AzureUploadStream(c, w, stream, blob_name, overwrite)

upload_file(c, w, path, blob_name, overwrite) ==
  IF c.kind = "gcp" THEN GCPUploadFile(c, w, path, blob_name, overwrite)
  ELSE AzureUploadFile(c, w, path, blob_name, overwrite)

upload_from_url(c, w, source_url, blob_name, overwrite) ==
  IF c.kind = "gcp" THEN GCPUploadFromUrl(c, w, source_url, blob_name, overwrite)
  ELSE AzureUploadFromUrl(c, w, source_url, blob_name, overwrite)

download_blob_to_bytes(c, w, s) ==
  IF c.kind = "gcp" THEN GCPDownloadToBytes(c, w, s) ELSE AzureDownloadToBytes(c, w, s)

download_blob_as_text(c, w, s) ==
  IF c.kind = "gcp" THEN GCPDownloadAsText(c, w, s) ELSE AzureDownloadAsText(c, w, s)

download_blob_to_file(c, w, s, dest) ==
  IF c.kind = "gcp" THEN GCPDownloadToFile(c, w, s, dest)
  ELSE AzureDownloadToFile(c, w, s, dest)

(***************************************************************************)
(* The inputs the model draws from.                                        *)
(***************************************************************************)
\* The most objects the store holds.
MaxBlobs == 1

\* Bucket, prefix, account and container names.
Bkt == <<"b", "k", "t">>
Com == <<"c", "o", "m">>
Pre == <<"p", "r", "e">>
Acct == <<"a", "c", "c", "t">>
Other == <<"o", "t", "h", "e", "r">>
Cont == <<"c", "o", "n", "t">>

\* Bare blob names: a plain one and one that holds "bkt/"; NameF is the base
\* name of the local file.
NameK == <<"k">>
NameDeep == <<"d", "/", "b", "k", "t", "/", "k">>
NameF == <<"f">>
Names == {NameK, NameDeep}

\* Byte payloads: empty, ASCII, and not UTF-8.
Payloads == {<<>>, <<104>>, <<255>>}

\* Local paths: a file that exists, one that does not, and a download target.
SrcFile == <<"/", "t", "/", "f">>
MissingFile == <<"/", "t", "/", "g">>
DestPath == <<"/", "t", "/", "o">>
TmpDir == <<"/", "t">>
InitFiles == [p \in {SrcFile} |-> <<104>>]
InitDirs == {TmpDir}

\* Source URLs for upload_from_url: one that answers, one that does not.
LiveUrl == HttpsScheme \o <<"e">>
DeadUrl == HttpsScheme \o <<"e", "/", "x">>
Web == [u \in {LiveUrl} |-> <<104>>]

EmptyEnv == [v \in EnvVars |-> None]
NoKwargs == [n \in {} |-> None]

\* The clients the storage operations are run on: both providers, blocking
\* and suspend-capable; for GCP with and without a container prefix, in both
\* URL modes, on a bucket whose name also occurs in the GCS host name.
GCPConfigs ==
  { [storage_account_name |-> b, container_name |-> p, return_https_url |-> None] :
      b \in {Bkt, Com}, p \in {None, Pre} }
    \cup { [storage_account_name |-> Bkt, container_name |-> p, return_https_url |-> PyFalse] :
             p \in {None, Pre} }

AzureConfigs == { [storage_account_name |-> Acct, container_name |-> Cont] }

StoreClients ==
  { GCPClientInit(a, kw, EmptyEnv).client : a \in BOOLEAN, kw \in GCPConfigs }
    \cup { AzureClientInit(a, kw, EmptyEnv).client : a \in BOOLEAN, kw \in AzureConfigs }

(***************************************************************************)
(* The state.                                                              *)
(*   env    : the process environment                                      *)
(*   client : the client the caller holds (NoClient: none)                 *)
(*   store, files, dirs : the world (objects, local files, directories)    *)
(*   last   : the most recent call: its name, arguments and outcome        *)
(*   calls  : per concurrent caller, the upload it is making               *)
(*   result : the descriptor or list the most recent call returned         *)
(*   handles : the credential and connection the client holds              *)
(*   builders : per MetricBuilder, its metrics dictionary                  *)
(*   apps    : per instrumented application, the builder chosen for it     *)
(*   global_metric_builder : the module global of server/common.py         *)
(***************************************************************************)
VARIABLES env, client, store, files, dirs, last, calls, result,
          handles, builders, apps, global_metric_builder

vars == <<env, client, store, files, dirs, last, calls, result,
          handles, builders, apps, global_metric_builder>>

\* The state of the metrics server, which no storage call touches.
otherVars == <<builders, apps, global_metric_builder>>

World == [store |-> store, files |-> files, dirs |-> dirs, web |-> Web]

NoBytes == <<>>
EmptyStore == [o \in {} |-> NoBytes]

\* The record of a call: op(arg, src, data, overwrite / kw) and its outcome.
Call(op, arg, src, data, ow, kw, exc, url, rdata, text, obj) ==
  [op |-> op, arg |-> arg, src |-> src, data |-> data, ow |-> ow, kw |-> kw,
   exc |-> exc, url |-> url, rdata |-> rdata, text |-> text, obj |-> obj]

\* No descriptor or list was returned.
NoResult == <<>>

\* The handles a client holds: the credential source its constructor used,
\* the sources it consulted in order, and whether its service connection and
\* its credential are "open" or "closed" ("none": there is none).
Handles(credential, tried, conn, cred) ==
  [credential |-> credential, tried |-> tried, client |-> conn, cred |-> cred]

NoHandles == Handles("none", <<>>, "none", "none")

\* A constructor that found no service-principal variables and no key file
\* takes the default credential and opens the service client with it.
DefaultHandles == Handles("default", <<"default">>, "open", "open")

HandlesOf(c) == IF c = NoClient THEN NoHandles ELSE DefaultHandles

\* No MetricBuilder exists and no application is instrumented.
\* global_metric_builder = None: no builder has been installed.
NoBuilder == 0

InitRest ==
  /\ builders = <<>>
  /\ apps = <<>>
  /\ global_metric_builder = NoBuilder

NoCall == Call("none", <<>>, <<>>, <<>>, TRUE, NoKwargs, "none", <<>>, <<>>, <<>>, NoObject)

\* A concurrent caller's upload: where it stands ("idle", "probed" after the
\* existence probe, "done"), the blob name and data it uploads, and its
\* outcome; passed: the probe found no blob; wrote: 0 before its write, else
\* the position of its write among the writes made.
Callers == {1, 2}
Idle == [pc |-> "idle", key |-> <<>>, data |-> <<>>, exc |-> "none", url |-> <<>>,
         passed |-> FALSE, wrote |-> 0]

\* A client call's outcome r takes effect and is recorded.
Commit(op, arg, src, data, ow, r) ==
  /\ Cardinality(DOMAIN r.w.store) <= MaxBlobs
  /\ store' = r.w.store
  /\ files' = r.w.files
  /\ dirs' = r.w.dirs
  /\ last' = Call(op, arg, src, data, ow, NoKwargs, r.exc, r.url, r.data, r.text, r.obj)
  /\ UNCHANGED <<env, client, calls, result, handles, otherVars>>

(***************************************************************************)
(* One caller using one client: every method call is one step.             *)
(***************************************************************************)
Init ==
  /\ env = EmptyEnv
  /\ client \in StoreClients
  /\ store = EmptyStore
  /\ files = InitFiles
  /\ dirs = InitDirs
  /\ last = NoCall
  /\ calls = [p \in Callers |-> Idle]
  /\ result = NoResult
  /\ handles = HandlesOf(client)
  /\ InitRest

UploadBytes ==
  \E data \in Payloads, n \in Names, ow \in BOOLEAN :
    Commit("upload_bytes", n, <<>>, data, ow, upload_bytes(client, World, data, n, ow))

UploadStream ==
  \E data \in Payloads, n \in Names, ow \in BOOLEAN :
    Commit("upload_stream", n, <<>>, data, ow, upload_stream(client, World, data, n, ow))

UploadFile ==
  \E path \in {SrcFile, MissingFile}, n \in {None, NameK}, ow \in BOOLEAN :
    Commit("upload_file", n, path, <<>>, ow, upload_file(client, World, path, n, ow))

UploadFromUrl ==
  \E u \in {LiveUrl, DeadUrl}, n \in Names, ow \in BOOLEAN :
    Commit("upload_from_url", n, u, <<>>, ow, upload_from_url(client, World, u, n, ow))

\* What a download is called with: a bare name, or the URL the upload just
\* before it returned.
DownloadArgs == Names \cup (IF last.url # <<>> THEN {last.url} ELSE {})

DownloadToBytes ==
  \E s \in DownloadArgs :
    Commit("download_blob_to_bytes", s, <<>>, <<>>, TRUE,
           download_blob_to_bytes(client, World, s))

DownloadAsText ==
  \E s \in DownloadArgs :
    Commit("download_blob_as_text", s, <<>>, <<>>, TRUE,
           download_blob_as_text(client, World, s))

DownloadToFile ==
  \E s \in DownloadArgs :
    Commit("download_blob_to_file", s, DestPath, <<>>, TRUE,
           download_blob_to_file(client, World, s, DestPath))

Next ==
  \/ UploadBytes
  \/ UploadStream
  \/ UploadFile
  \/ UploadFromUrl
  \/ DownloadToBytes
  \/ DownloadAsText
  \/ DownloadToFile

Spec == Init /\ [][Next]_vars

(***************************************************************************)
(* Properties of one caller using one client (Spec).                       *)
(***************************************************************************)
UploadOps == {"upload_bytes", "upload_stream", "upload_file", "upload_from_url"}
DownloadOps == {"download_blob_to_bytes", "download_blob_as_text", "download_blob_to_file"}
AlreadyExistsErrors == {"FileExistsError", "ResourceExistsError"}
NotFoundErrors == {"NotFound", "ResourceNotFoundError"}

\* C1: upload_bytes(data, name) followed directly by
\* download_blob_to_bytes(name) on the same client returns exactly data, for
\* every client configuration, payload and bare name.
C1_RoundTripBytes ==
  [][ (/\ last.op = "upload_bytes" /\ last.exc = "none"
       /\ last'.op = "download_blob_to_bytes" /\ last'.arg = last.arg)
      => (last'.exc = "none" /\ last'.rdata = last.data) ]_vars

\* C2 as stated: upload_file, upload_bytes or upload_stream called with
\* overwrite=False for a destination that exists raises an already-exists
\* error and leaves the stored content as it was.
C2_AlreadyExistsAlways ==
  [][ (/\ last'.op \in {"upload_file", "upload_bytes", "upload_stream"}
       /\ ~last'.ow /\ last'.obj \in DOMAIN store)
      => (last'.exc \in AlreadyExistsErrors /\ store' = store) ]_vars

\* C2 amended: upload_file, upload_bytes or upload_stream called with
\* overwrite=False for a destination that exists raises an error and leaves
\* the stored content as it was; the error is an already-exists error for
\* upload_bytes and upload_stream on every client, for upload_file on the GCP
\* clients, and for upload_file on the Azure clients when the local file
\* exists (they open the local file first, so a missing one raises
\* FileNotFoundError).
C2_NoOverwriteKeepsContent ==
  [][ (/\ last'.op \in {"upload_file", "upload_bytes", "upload_stream"}
       /\ ~last'.ow /\ last'.obj \in DOMAIN store)
      => (/\ store' = store
          /\ last'.exc # "none"
          /\ (last'.op # "upload_file" \/ client.kind = "gcp" \/ last'.src \in DOMAIN files)
               => last'.exc \in AlreadyExistsErrors
          /\ (last'.op = "upload_file" /\ client.kind = "azure"
                /\ last'.src \notin DOMAIN files)
               => last'.exc = "FileNotFoundError") ]_vars

\* C2 witness: an upload with overwrite=False was just refused with an
\* already-exists error, its destination holding other content than offered.
C2_RefusedUpload ==
  /\ last.op \in {"upload_file", "upload_bytes", "upload_stream"}
  /\ ~last.ow
  /\ last.exc \in AlreadyExistsErrors
  /\ last.obj \in DOMAIN store
  /\ last.op = "upload_bytes" => store[last.obj] # last.data

\* C3: upload_from_url(source_url, name, overwrite=False) for a name that
\* exists raises an already-exists error and leaves the object unchanged, on
\* every client.
C3_UploadFromUrlNoOverwrite ==
  [][ (last'.op = "upload_from_url" /\ ~last'.ow /\ last'.obj \in DOMAIN store)
      => (last'.exc \in AlreadyExistsErrors /\ store' = store) ]_vars

\* C5: after upload_bytes(data, name), download_blob_to_file(name, path)
\* returns normally and leaves a file at path whose content is data, on every
\* client variant.
C5_DownloadToFile ==
  [][ (/\ last.op = "upload_bytes" /\ last.exc = "none"
       /\ last'.op = "download_blob_to_file" /\ last'.arg = last.arg)
      => (/\ last'.exc = "none"
          /\ last'.src \in DOMAIN files'
          /\ files'[last'.src] = last.data) ]_vars

\* C6: a download called with the URL an upload on the same client just
\* returned addresses exactly the blob that upload wrote, and finds it.
C6_UrlReadsUploadedBlob ==
  [][ (/\ last.op \in UploadOps /\ last.exc = "none"
       /\ last'.op \in DownloadOps /\ last'.arg = last.url)
      => (last'.obj = last.obj /\ last'.exc \notin NotFoundErrors) ]_vars

(***************************************************************************)
(* The factories (cloud/storage.py): a caller makes a client from a        *)
(* provider name and options, or from a blob URL, and then uses it.        *)
(***************************************************************************)
\* Provider arguments: not given, lower and upper case, and an unknown one.
ProvGCPUpper == <<"G", "C", "P">>
ProvGCSUpper == <<"G", "C", "S">>
ProvS3 == <<"s", "3">>
ProviderArgs == {None, ProvGcp, ProvGCPUpper, ProvAz, ProvS3}

\* Options: none, the bucket_name of the factory's docstring, and the
\* parameters the constructors declare.
FactoryKwargs ==
  { NoKwargs,
    [n \in {"bucket_name"} |-> Bkt],
    [n \in {"storage_account_name"} |-> Bkt],
    [storage_account_name |-> Acct, container_name |-> Cont] }

OtherAccountUrl == HttpsScheme \o Other \o AzureHostSuffix

\* The environments a process is started in.
EnvWith(pairs) == [v \in EnvVars |-> IF v \in DOMAIN pairs THEN pairs[v] ELSE None]

Envs ==
  { EmptyEnv,
    EnvWith([STORAGE_PROVIDER |-> ProvGCSUpper, GCP_STORAGE_BUCKET_NAME |-> Bkt]),
    EnvWith([STORAGE_PROVIDER |-> ProvS3, AZURE_STORAGE_ACCOUNT_NAME |-> Acct,
             AZURE_STORAGE_CONTAINER_NAME |-> Cont]),
    EnvWith([AZURE_STORAGE_ACCOUNT_URL |-> OtherAccountUrl,
             AZURE_STORAGE_CONTAINER_NAME |-> Cont]) }

\* Blob URLs in the forms the providers publish (the forms _format_url
\* returns, and gs://), each with the object it names.
GcsHttpsUrl(bucket, key) == HttpsScheme \o GcsHost \o Slash \o bucket \o Slash \o key
GsUrl(bucket, key) == GsScheme \o bucket \o Slash \o key
AzureBlobUrl(account, container, key) ==
  HttpsScheme \o account \o AzureHostSuffix \o Slash \o container \o Slash \o key

BlobUrlCase(url, provider, obj) == [url |-> url, provider |-> provider, obj |-> obj]

BlobUrlCases ==
  { BlobUrlCase(GcsHttpsUrl(b, k), "gcp", GcsObject(b, k)) : b \in {Bkt}, k \in Names }
    \cup { BlobUrlCase(GcsHttpsUrl(Com, NameK), "gcp", GcsObject(Com, NameK)),
           BlobUrlCase(GsUrl(Bkt, NameK), "gcp", GcsObject(Bkt, NameK)),
           BlobUrlCase(AzureBlobUrl(Acct, Cont, NameK), "azure",
                       AzureObject(Acct \o AzureHostSuffix, Cont, NameK)) }

\* URLs of other providers, of none, and the empty string.
S3Url == S3Scheme \o Bkt \o Slash \o NameK
S3HttpsUrl == HttpsScheme \o Bkt \o S3HostSuffix \o Slash \o NameK
PlainUrl == HttpsScheme \o <<"e">> \o Slash \o NameK
ForeignUrls == {S3Url, S3HttpsUrl, PlainUrl, <<>>}

ReaderUrls == {x.url : x \in BlobUrlCases} \cup ForeignUrls

\* The blob a blob URL names.
BlobOf(url) == (CHOOSE x \in BlobUrlCases : x.url = url).obj

\* The objects in the services when the process starts: every blob the URLs
\* name, and the one at the other account's endpoint, each with its own content.
OtherObject == AzureObject(Other \o AzureHostSuffix, Cont, NameK)
SeededObjects == {x.obj : x \in BlobUrlCases} \cup {OtherObject}
SeededStore == [o \in SeededObjects |-> <<100 + Len(o.acct) + Len(o.key)>>]

InitFactory ==
  /\ env \in Envs
  /\ client = NoClient
  /\ store = SeededStore
  /\ files = InitFiles
  /\ dirs = InitDirs
  /\ last = NoCall
  /\ calls = [p \in Callers |-> Idle]
  /\ result = NoResult
  /\ handles = HandlesOf(client)
  /\ InitRest

\* A factory call's outcome r: the caller holds the client it returned.
Made(op, arg, kw, r) ==
  /\ client' = r.client
  /\ handles' = HandlesOf(r.client)
  /\ last' = Call(op, arg, <<>>, <<>>, TRUE, kw, r.exc, <<>>, <<>>, <<>>, NoObject)
  /\ UNCHANGED <<env, store, files, dirs, calls, result, otherVars>>

GetStorageClient ==
  \E sp \in ProviderArgs, kw \in FactoryKwargs :
    Made("get_storage_client", sp, kw, get_storage_client(sp, kw, env))

GetStorageClientAsync ==
  \E sp \in ProviderArgs, kw \in FactoryKwargs :
    Made("get_storage_client_async", sp, kw, get_storage_client_async(sp, kw, env))

GetReaderClientFromUrl ==
  \E url \in ReaderUrls :
    Made("get_reader_client_from_url", url, NoKwargs,
         get_reader_client_from_url(FALSE, url, env))

GetReaderClientFromUrlAsync ==
  \E url \in ReaderUrls :
    Made("get_reader_client_from_url_async", url, NoKwargs,
         get_reader_client_from_url(TRUE, url, env))

FactoryOps == {"get_storage_client", "get_storage_client_async"}
ReaderOps == {"get_reader_client_from_url", "get_reader_client_from_url_async"}

\* A call on the client the factory returned: its outcome r takes effect.
Used(op, arg, data, r) ==
  /\ store' = r.w.store
  /\ files' = r.w.files
  /\ dirs' = r.w.dirs
  /\ last' = Call(op, arg, <<>>, data, TRUE, NoKwargs, r.exc, r.url, r.data, r.text, r.obj)
  /\ UNCHANGED <<env, client, calls, result, handles, otherVars>>

\* client.upload_bytes(b"x", "k") on the client a factory just returned
ClientUploadBytes ==
  /\ last.op \in FactoryOps
  /\ client # NoClient
  /\ Used("upload_bytes", NameK, <<120>>, upload_bytes(client, World, <<120>>, NameK, TRUE))

\* reader.download_blob_to_bytes(url) on the reader just made for url
ReaderDownload ==
  /\ last.op \in ReaderOps
  /\ client # NoClient
  /\ Used("download_blob_to_bytes", last.arg, <<>>,
          download_blob_to_bytes(client, World, last.arg))

NextFactory ==
  \/ GetStorageClient
  \/ GetStorageClientAsync
  \/ GetReaderClientFromUrl
  \/ GetReaderClientFromUrlAsync
  \/ ClientUploadBytes
  \/ ReaderDownload

SpecFactory == InitFactory /\ [][NextFactory]_vars

(***************************************************************************)
(* Properties of the factories (SpecFactory).                              *)
(***************************************************************************)
KnownProviders == {ProvAzure, ProvAz, ProvGcp, ProvGcs}

\* The provider a call names: the argument when given, else STORAGE_PROVIDER
\* when set, else "azure"; in lower case (the resolution of
\* get_storage_client_async).
ResolvedProvider(sp, e) == Lower(PyOr(sp, getenv(e, "STORAGE_PROVIDER", ProvAzure)))

\* C7: both factories fail, and construct no client, for every provider
\* value (argument or STORAGE_PROVIDER) outside {azure, az, gcp, gcs}.
C7_UnknownProviderRejected ==
  (last.op \in FactoryOps /\ ResolvedProvider(last.arg, env) \notin KnownProviders)
    => (last.exc # "none" /\ client = NoClient)

\* C8: a client either factory returns is of the family the resolved
\* provider names, whatever the letter case: GCP for gcp/gcs, Azure for
\* azure/az.
C8_SameFamilyAnyCase ==
  (last.op \in FactoryOps /\ last.exc = "none")
    => /\ ResolvedProvider(last.arg, env) \in {ProvGcp, ProvGcs} => client.kind = "gcp"
       /\ ResolvedProvider(last.arg, env) \in {ProvAzure, ProvAz} => client.kind = "azure"

\* C9: either factory called with "gcp" and bucket_name = b returns a GCP
\* client bound to bucket b, and the URL its upload_bytes(b"x", "k") returns
\* contains b and k.
C9_BucketNameOption ==
  /\ (last.op \in FactoryOps /\ last.arg = ProvGcp /\ last.kw = [n \in {"bucket_name"} |-> Bkt])
       => (last.exc = "none" /\ client.kind = "gcp" /\ client.bucket_name = Bkt)
  /\ (last.op = "upload_bytes" /\ client.kind = "gcp")
       => (last.exc = "none" /\ Contains(last.url, client.bucket_name)
             /\ Contains(last.url, last.arg))

\* C10: for an Azure or GCP blob URL both reader factories return a client of
\* the detected provider bound to the account or bucket and container the URL
\* names, and a download of that URL through it reads that blob; for a URL
\* detected as aws or unknown they raise and return no client.
C10_ReaderReadsItsUrl ==
  /\ (last.op \in ReaderOps /\ last.arg \in {x.url : x \in BlobUrlCases})
       => /\ last.exc = "none"
          /\ client.kind = parse_cloud_url(last.arg).provider
          /\ client.kind = "gcp" => client.bucket_name = BlobOf(last.arg).acct
          /\ client.kind = "azure" =>
               (client.account_name = Acct /\ client.container_name = BlobOf(last.arg).cont)
  /\ (last.op = "download_blob_to_bytes" /\ last.arg \in {x.url : x \in BlobUrlCases})
       => /\ last.exc = "none"
          /\ last.obj = BlobOf(last.arg)
          /\ last.rdata = store[BlobOf(last.arg)]
  /\ (last.op \in ReaderOps /\ last.arg # <<>>
        /\ parse_cloud_url(last.arg).provider \in {"aws", "unknown"})
       => (last.exc # "none" /\ client = NoClient)

(***************************************************************************)
(* Two callers uploading through one GCP client at the same time           *)
(* (threads on the blocking client, processes on either): upload_bytes     *)
(* with overwrite=False is two requests to the service, blob.exists() and  *)
(* blob.upload_from_string(), and the other caller may act between them.   *)
(***************************************************************************)
GCPClients == {c \in StoreClients : c.kind = "gcp"}

InitRace ==
  /\ env = EmptyEnv
  /\ client \in GCPClients
  /\ store = EmptyStore
  /\ files = InitFiles
  /\ dirs = InitDirs
  /\ last = NoCall
  /\ calls = [p \in Callers |-> Idle]
  /\ result = NoResult
  /\ handles = HandlesOf(client)
  /\ InitRest

WritesMade == Cardinality({p \in Callers : calls[p].wrote > 0})

\* upload_bytes(data, n, overwrite=False) up to and including the probe:
\* "if not overwrite and blob.exists(): raise FileExistsError".
ProbeOutcome(p, n, data, key) ==
  IF GCPExistsGuard(client, World, key, FALSE)
  THEN /\ calls' = [calls EXCEPT ![p] = [pc |-> "done", key |-> key, data |-> data,
                                         exc |-> "FileExistsError", url |-> <<>>,
                                         passed |-> FALSE, wrote |-> 0]]
       /\ last' = Call("upload_bytes", n, <<>>, data, FALSE, NoKwargs, "FileExistsError",
                       <<>>, <<>>, <<>>, GcsObject(client.bucket_name, key))
  ELSE /\ calls' = [calls EXCEPT ![p] = [pc |-> "probed", key |-> key, data |-> data,
                                         exc |-> "none", url |-> <<>>,
                                         passed |-> TRUE, wrote |-> 0]]
       /\ UNCHANGED last

Probe(p) ==
  /\ calls[p].pc = "idle"
  /\ \E data \in Payloads, n \in Names :
       ProbeOutcome(p, n, data, GCPPrefixedBlobName(client, n))
  /\ UNCHANGED <<env, client, store, files, dirs, result, handles, otherVars>>

\* The rest of upload_bytes: blob.upload_from_string(data); return the URL.
WriteOutcome(p, r) ==
  /\ store' = r.w.store
  /\ calls' = [calls EXCEPT ![p].pc = "done", ![p].exc = r.exc, ![p].url = r.url,
                            ![p].wrote = IF r.exc = "none" THEN WritesMade + 1 ELSE 0]
  /\ last' = Call("upload_bytes", calls[p].key, <<>>, calls[p].data, FALSE, NoKwargs,
                  r.exc, r.url, <<>>, <<>>, r.obj)
  /\ UNCHANGED <<env, client, files, dirs, result, handles, otherVars>>

Write(p) ==
  /\ calls[p].pc = "probed"
  /\ WriteOutcome(p, GCPWrite(client, World, calls[p].key, calls[p].data))

NextRace == \E p \in Callers : Probe(p) \/ Write(p)

SpecRace == InitRace /\ [][NextRace]_vars

(***************************************************************************)
(* Properties of concurrent uploads (SpecRace).                            *)
(***************************************************************************)
\* C4: the overwrite=False guard of the GCP clients is check-then-act: when
\* two callers upload to the same name with overwrite=False and both pass the
\* existence probe, both uploads return without an already-exists error, and
\* the blob holds what the later of the two writes stored.
C4_CheckThenAct ==
  \A p, q \in Callers :
    (/\ p # q
     /\ calls[p].pc = "done" /\ calls[q].pc = "done"
     /\ calls[p].passed /\ calls[q].passed
     /\ calls[p].key = calls[q].key
     /\ calls[p].wrote < calls[q].wrote)
    => /\ calls[p].exc = "none" /\ calls[q].exc = "none"
       /\ calls[p].wrote = 1 /\ calls[q].wrote = 2
       /\ store[GcsObject(client.bucket_name, calls[q].key)] = calls[q].data

\* C4 witness: both callers passed the probe for one name and finished
\* without an error, and the later write replaced different content written
\* by the earlier one.
C4_LostUpdate ==
  \E p, q \in Callers :
    /\ calls[p].pc = "done" /\ calls[q].pc = "done"
    /\ calls[p].passed /\ calls[q].passed
    /\ calls[p].key = calls[q].key
    /\ calls[p].exc = "none" /\ calls[q].exc = "none"
    /\ calls[p].wrote = 1 /\ calls[q].wrote = 2
    /\ calls[p].data # calls[q].data
    /\ store[GcsObject(client.bucket_name, calls[q].key)] = calls[q].data

(***************************************************************************)
(* cloud/utils.py: parse_cloud_url called on URLs of every form.           *)
(***************************************************************************)
\* Names for the URLs: the ones of the documented examples among them.
MyContainer == <<"m", "y", "c", "o", "n", "t", "a", "i", "n", "e", "r">>
MyBucket == <<"m", "y", "b", "u", "c", "k", "e", "t">>
Port443 == <<":", "4", "4", "3">>
PlainHost == <<"e", ".", "o", "r", "g">>
ParseBlobs ==
  { NameK, <<"d", "i", "r", "/", "f", "i", "l", "e", ".", "t", "x", "t">>, <<"p", "a", "t", "h", "/", "o", "b", "j", ".", "j", "s", "o", "n">>, <<"a", " ", "b">>, <<"a", "?", "b">>, <<"a", "#", "b">> }

\* urllib.parse.quote of a blob name: "/" stays, " ", "?" and "#" are escaped.
RECURSIVE PercentEncode(_)
PercentEncode(s) ==
  IF s = <<>> THEN <<>>
  ELSE (IF s[1] = " " THEN <<"%", "2", "0">>
        ELSE IF s[1] = "?" THEN <<"%", "3", "F">>
        ELSE IF s[1] = "#" THEN <<"%", "2", "3">>
        ELSE <<s[1]>>) \o PercentEncode(Tail(s))

\* A URL built from its parts: the URL, the form it has, the parts it was
\* built from and its path as written (without the leading "/").
ParseCase(url, form, account, container, blob, path) ==
  <<url, form, account, container, blob, path>>

CaseUrl(x) == x[1]
CaseForm(x) == x[2]
CaseAccount(x) == x[3]
CaseContainer(x) == x[4]
CaseBlob(x) == x[5]
CasePath(x) == x[6]

AzureCases ==
  { ParseCase(HttpsScheme \o a \o AzureHostSuffix \o port \o Slash \o c \o Slash
                \o PercentEncode(b),
              "azure", a, c, b, c \o Slash \o PercentEncode(b)) :
      a \in {Acct, Other}, port \in {<<>>, Port443}, c \in {Cont, MyContainer},
      b \in ParseBlobs }

GcsCases ==
  { ParseCase(HttpsScheme \o GcsHost \o Slash \o bk \o Slash \o PercentEncode(b),
              "gcs", bk, None, b, bk \o Slash \o PercentEncode(b)) :
      bk \in {Bkt, MyBucket}, b \in ParseBlobs }

GsCases ==
  { ParseCase(GsScheme \o bk \o Slash \o PercentEncode(b),
              "gs", bk, None, b, PercentEncode(b)) :
      bk \in {Bkt, MyBucket}, b \in ParseBlobs }

S3HostCases ==
  { ParseCase(HttpsScheme \o bk \o S3HostSuffix \o Slash \o PercentEncode(b),
              "s3host", bk, None, b, PercentEncode(b)) :
      bk \in {Bkt, MyBucket}, b \in ParseBlobs }

S3Cases ==
  { ParseCase(S3Scheme \o bk \o Slash \o PercentEncode(b),
              "s3", bk, None, b, PercentEncode(b)) :
      bk \in {Bkt, MyBucket}, b \in ParseBlobs }

\* Path-style S3 URLs: the host is s3.amazonaws.com itself, with no subdomain.
S3PathCases ==
  { ParseCase(HttpsScheme \o S3HostMark \o Slash \o bk \o Slash \o PercentEncode(b),
              "s3path", bk, None, b, bk \o Slash \o PercentEncode(b)) :
      bk \in {Bkt, MyBucket}, b \in ParseBlobs }

PlainCases ==
  { ParseCase(HttpsScheme \o PlainHost \o Slash \o bk \o Slash \o PercentEncode(b),
              "plain", None, None, b, bk \o Slash \o PercentEncode(b)) :
      bk \in {Bkt, MyBucket}, b \in ParseBlobs }

\* Provider URLs that stop before the container or bucket.
IncompleteCases ==
  { ParseCase(HttpsScheme \o a \o AzureHostSuffix \o tail, "incomplete", a, None, None, <<>>) :
      a \in {Acct, Other}, tail \in {<<>>, Slash} }
    \cup { ParseCase(HttpsScheme \o GcsHost \o tail, "incomplete", None, None, None, <<>>) :
             tail \in {<<>>, Slash} }

EmptyCase == ParseCase(<<>>, "empty", None, None, None, <<>>)

ParseCases ==
  AzureCases \cup GcsCases \cup GsCases \cup S3HostCases \cup S3Cases \cup S3PathCases
    \cup PlainCases \cup IncompleteCases \cup {EmptyCase}

\* The case a URL was built as.
CaseOf(url) == CHOOSE x \in ParseCases : CaseUrl(x) = url

InitParse ==
  /\ env = EmptyEnv
  /\ client = NoClient
  /\ store = EmptyStore
  /\ files = InitFiles
  /\ dirs = InitDirs
  /\ last = NoCall
  /\ calls = [p \in Callers |-> Idle]
  /\ result = NoResult
  /\ handles = HandlesOf(client)
  /\ InitRest

\* parse_cloud_url(url): the descriptor it returns, or the exception it raises.
ParseCloudUrl ==
  \E x \in ParseCases :
    /\ result' = parse_cloud_url(CaseUrl(x))
    /\ last' = Call("parse_cloud_url", CaseUrl(x), <<>>, <<>>, TRUE, NoKwargs,
                    result'.exc, <<>>, <<>>, <<>>, NoObject)
    /\ UNCHANGED <<env, client, store, files, dirs, calls, handles, otherVars>>

NextParse == ParseCloudUrl

SpecParse == InitParse /\ [][NextParse]_vars

(***************************************************************************)
(* Properties of parse_cloud_url (SpecParse).                              *)
(***************************************************************************)
ParsedAs(forms) == last.op = "parse_cloud_url" /\ CaseForm(CaseOf(last.arg)) \in forms

\* The blob a case names, as decoded text or as written in the URL.
BlobForms(x) == {CaseBlob(x), PercentEncode(CaseBlob(x))}

\* C11: for every URL whose host contains blob.core.windows.net,
\* parse_cloud_url returns provider azure, the subdomain before
\* .blob.core.windows.net as storage_account_name, the first path segment as
\* container and the remainder of the path as blob.
C11_AzureFields ==
  ParsedAs({"azure"})
    => /\ last.exc = "none"
       /\ result.provider = "azure"
       /\ result.storage_account_name = CaseAccount(CaseOf(last.arg))
       /\ result.container = CaseContainer(CaseOf(last.arg))
       /\ result.blob \in BlobForms(CaseOf(last.arg))

\* C12: for every URL whose host contains storage.googleapis.com or whose
\* scheme is gs://, parse_cloud_url returns provider gcp, the bucket as
\* storage_account_name, no container, and the remainder of the path as blob.
C12_GcpFields ==
  ParsedAs({"gcs", "gs"})
    => /\ last.exc = "none"
       /\ result.provider = "gcp"
       /\ result.storage_account_name = CaseAccount(CaseOf(last.arg))
       /\ result.container = None
       /\ result.blob \in BlobForms(CaseOf(last.arg))

\* C13: parse_cloud_url returns provider aws exactly for hosts of the form
\* <bucket>.s3.amazonaws.com and for s3:// URLs, then with the bucket as
\* storage_account_name and the full remaining path as blob; a URL matching
\* no provider pattern is returned as unknown with its path as blob.
C13_AwsAndUnknown ==
  ParsedAs({"azure", "gcs", "gs", "s3host", "s3", "s3path", "plain"})
    => /\ last.exc = "none"
       /\ result.provider = "aws" <=> CaseForm(CaseOf(last.arg)) \in {"s3host", "s3"}
       /\ result.provider = "aws" =>
            /\ result.storage_account_name = CaseAccount(CaseOf(last.arg))
            /\ result.blob \in BlobForms(CaseOf(last.arg))
       /\ CaseForm(CaseOf(last.arg)) = "plain" =>
            /\ result.provider = "unknown"
            /\ result.blob \in {CasePath(CaseOf(last.arg)), Unquote(CasePath(CaseOf(last.arg)))}

\* C14: parse_cloud_url raises for the empty input and for a provider URL
\* without a container or bucket, and never returns a descriptor of a matched
\* provider whose container (Azure) or bucket (GCP, AWS) is empty or missing.
C14_IncompleteRejected ==
  last.op = "parse_cloud_url"
    => /\ CaseForm(CaseOf(last.arg)) \in {"empty", "incomplete"} => last.exc # "none"
       /\ (last.exc = "none" /\ result.provider = "azure") => Truthy(result.container)
       /\ (last.exc = "none" /\ result.provider \in {"gcp", "aws"})
            => Truthy(result.storage_account_name)

\* The path a descriptor's fields recombine to.
Recombined(form, d) ==
  IF form = "azure" THEN d.container \o Slash \o d.blob
  ELSE IF form = "gcs" THEN d.storage_account_name \o Slash \o d.blob
  ELSE d.blob

\* C15: for every valid Azure, GCP or AWS URL the fields of the descriptor
\* recombine to the URL's path: container/blob for Azure, bucket/blob for
\* host-form GCS, the blob alone for gs://, s3:// and <bucket>.s3.amazonaws.com.
C15_FieldsRecombine ==
  ParsedAs({"azure", "gcs", "gs", "s3host", "s3"})
    => /\ last.exc = "none"
       /\ result.blob # None
       /\ Recombined(CaseForm(CaseOf(last.arg)), result)
            \in {CasePath(CaseOf(last.arg)), Unquote(CasePath(CaseOf(last.arg)))}

(***************************************************************************)
(* Properties of a client's uploads after construction (SpecFactory).      *)
(***************************************************************************)
\* C16: an upload returns the URL of the object it wrote, in the provider's
\* format: https://{account}.blob.core.windows.net/{container}/{blob} on
\* Azure; on GCP https://storage.googleapis.com/{bucket}/{blob} in https mode
\* (no explicit value and STORAGE_URL_MODE unset or https) and
\* gs://{bucket}/{blob} otherwise; and the URL holds the caller's blob name.
C16_UrlNamesWrittenObject ==
  (last.op = "upload_bytes" /\ last.exc = "none")
    => /\ last.obj \in DOMAIN store
       /\ Contains(last.url, last.arg)
       /\ last.obj.svc = "azure" =>
            last.url = HttpsScheme \o last.obj.acct \o Slash \o last.obj.cont
                         \o Slash \o last.obj.key
       /\ last.obj.svc = "gcs" =>
            last.url = (IF Lower(getenv(env, "STORAGE_URL_MODE", HttpsMode)) = HttpsMode
                        THEN GcsHttpsUrl(last.obj.acct, last.obj.key)
                        ELSE GsUrl(last.obj.acct, last.obj.key))

\* The name a constructor of the given family resolves for its bucket (GCP)
\* or container (Azure): the explicit argument, else the environment variable.
ConfiguredName(kind, kw, e) ==
  IF kind = "gcp"
  THEN PyOr(Arg(kw, "storage_account_name"), e["GCP_STORAGE_BUCKET_NAME"])
  ELSE IF Arg(kw, "container_name") = None THEN e["AZURE_STORAGE_CONTAINER_NAME"]
  ELSE Arg(kw, "container_name")

SrcDir == <<"/", "t", "/", "s">>
FolderFileA == <<"/", "t", "/", "s", "/", "a">>
FolderFileB == <<"/", "t", "/", "s", "/", "u", "/", "b">>
ExistingDir == <<"/", "t", "/", "e">>
NewDir == <<"/", "t", "/", "n">>
FolderFiles == [p \in {FolderFileA, FolderFileB} |-> IF p = FolderFileA THEN <<97>> ELSE <<98>>]
FolderDirs == {TmpDir, SrcDir, <<"/", "t", "/", "s", "/", "u">>, ExistingDir}

\* The remote folder, and a blob beside it whose name starts with the same text.
RemoteS == <<"s">>
SiblingName == <<"s", "x">>

\* A blob beside the folder whose name is listed before the folder's own.
EarlierName == <<"s", "-", "x">>

\* A blob already stored under the name the folder's second file uploads to.
StoredName == <<"s", "/", "u", "/", "b">>

\* The type of the local_folder_path argument.
TypeStr == <<"s", "t", "r">>
TypePath == <<"P", "a", "t", "h">>
ArgType(as_path) == [n \in {"local_folder_path"} |-> IF as_path THEN TypePath ELSE TypeStr]

\* What a folder call did: the exception it raised ("none": it returned), the
\* list it returned and the world after it.
FolderResult(exc, urls, w) == [exc |-> exc, urls |-> urls, w |-> w]

\* The regular files local_folder_path.rglob("*") yields.
FilesUnder(w, dir) == {p \in DOMAIN w.files : StartsWith(p, dir \o Slash)}

\* The orders a directory walk can yield them in.
Orders(S) ==
  {q \in [1..Cardinality(S) -> S] : \A i, j \in 1..Cardinality(S) : i # j => q[i] # q[j]}

\* p.relative_to(base) for p below base
RelPath(p, base) == SubSeq(p, Len(RStrip(base, "/")) + 2, Len(p))

\* str(Path(a) / rel)
PathJoin(a, rel) == RStrip(a, "/") \o Slash \o rel

\* Path(name).relative_to(base) succeeds: name is base or lies below it.
IsRelativeTo(name, base) ==
  name = RStrip(base, "/") \/ StartsWith(name, RStrip(base, "/") \o Slash)

\* The upload of one file of the folder: self.upload_file(file_path, blob_name,
\* overwrite) in the GCP clients, _upload_blob_from_file on the container's
\* blob client in the Azure clients.
UploadFolderFile(c, w, path, blob_name, overwrite) ==
  IF c.kind = "gcp" THEN GCPUploadFile(c, w, path, blob_name, overwrite)
  ELSE AzureUploadPath(c, w, AzureContainerBlob(c, blob_name), path, overwrite)

\* The loop of upload_folder over the files in walk order: each URL is
\* appended; the first exception ends the call.
RECURSIVE UploadEach(_, _, _, _, _, _, _)
RECURSIVE UploadNext(_, _, _, _, _, _, _)

\* A loop that goes on to the next file when one fails.
UploadNextContinue(c, base, remote, rest, overwrite, urls, r) ==
  IF r.exc # "none" THEN UploadEach(c, r.w, base, remote, rest, overwrite, urls)
  ELSE UploadEach(c, r.w, base, remote, rest, overwrite, Append(urls, r.url))

UploadEach(c, w, base, remote, order, overwrite, urls) ==
  IF order = <<>> THEN FolderResult("none", urls, w)
  ELSE UploadNext(c, base, remote, Tail(order), overwrite, urls,
                  UploadFolderFile(c, w, Head(order),
                                   PathJoin(remote, RelPath(Head(order), base)), overwrite))

UploadNext(c, base, remote, rest, overwrite, urls, r) ==
  IF r.exc # "none" THEN FolderResult(r.exc, NoResult, r.w)
  ELSE UploadEach(c, r.w, base, remote, rest, overwrite, Append(urls, r.url))

\* GCPStorageClient.upload_folder and its async twin: the remote folder is
\* prefixed, then rglob is called on the argument as it was passed, which a
\* str does not have.
GCPUploadFolder(c, w, dir, as_path, remote, overwrite, order) ==
  IF ~as_path THEN FolderResult("AttributeError", NoResult, w)
  ELSE UploadEach(c, w, dir, GCPPrefixedBlobName(c, PyOr(remote, PathName(dir))),
                  order, overwrite, <<>>)

\* AzureBlobServiceClient.upload_folder and its async twin: the argument is
\* converted to a Path first.
AzureUploadFolder(c, w, dir, remote, overwrite, order) ==
  UploadEach(c, w, dir, PyOr(remote, PathName(dir)), order, overwrite, <<>>)

upload_folder(c, w, dir, as_path, remote, overwrite, order) ==
  IF c.kind = "gcp" THEN GCPUploadFolder(c, w, dir, as_path, remote, overwrite, order)
  ELSE AzureUploadFolder(c, w, dir, remote, overwrite, order)

\* The object a name denotes in the client's bucket or container.
ClientObject(c, key) ==
  IF c.kind = "gcp" THEN GcsObject(c.bucket_name, key) ELSE AzureContainerBlob(c, key)

\* a < b in the order the services list names in (code point order).
RECURSIVE NameLess(_, _)
NameLess(a, b) ==
  IF b = <<>> THEN FALSE
  ELSE IF a = <<>> THEN TRUE
  ELSE IF a[1] # b[1] THEN Ord(a[1]) < Ord(b[1])
  ELSE NameLess(Tail(a), Tail(b))

RECURSIVE SortNames(_)
SortNames(S) ==
  IF S = {} THEN <<>>
  ELSE LET m == CHOOSE x \in S : \A y \in S \ {x} : NameLess(x, y)
       IN  <<m>> \o SortNames(S \ {m})

\* list_blobs(prefix=...) / list_blobs(name_starts_with=...): the names in the
\* client's bucket or container that start with the text given.
ListBlobs(c, w, prefix) ==
  SortNames({o.key : o \in {x \in DOMAIN w.store :
                              x = ClientObject(c, x.key) /\ StartsWith(x.key, prefix)}})

\* local_dir.mkdir(parents=True, exist_ok=True)
MkdirAll(w, dir) == MkdirParents(w, dir \o Slash)

\* The download of one listed blob to its local file: download_to_filename in
\* the GCP clients, _download_blob_to_file in the Azure ones (sync and async
\* alike open the file, then read the blob into it).
DownloadFolderBlob(c, w1, o, local) ==
  IF c.kind = "gcp" THEN GCPReadToFile(w1, o, local)
  ELSE AzureWriteSync(w1, Handle("none", o), local)

\* The loop of download_folder_if_not_exists over the listed names:
\* relative_to raises for a name outside the folder, the folder's own name
\* maps to the directory itself, which cannot be opened as a file.
RECURSIVE DownloadEach(_, _, _, _, _)
RECURSIVE DownloadNext(_, _, _, _, _)
DownloadEach(c, w, dest, remote, names) ==
  IF names = <<>> THEN FolderResult("none", NoResult, w)
  ELSE IF ~IsRelativeTo(Head(names), remote) THEN FolderResult("ValueError", NoResult, w)
  ELSE IF Head(names) = RStrip(remote, "/") THEN FolderResult("IsADirectoryError", NoResult, w)
  ELSE DownloadNext(c, dest, remote, Tail(names),
                    DownloadFolderBlob(c, MkdirParents(w, PathJoin(dest, RelPath(Head(names), remote))),
                                       ClientObject(c, Head(names)),
                                       PathJoin(dest, RelPath(Head(names), remote))))

DownloadNext(c, dest, remote, rest, r) ==
  IF r.exc # "none" THEN FolderResult(r.exc, NoResult, r.w)
  ELSE DownloadEach(c, r.w, dest, remote, rest)

\* A download that does not look whether the directory is there.
download_folder_always(c, w, dest, remote) ==
  DownloadEach(c, MkdirAll(w, dest), dest, remote, ListBlobs(c, w, remote))

\* download_folder_if_not_exists(destination_path, remote_folder_path), the
\* same in the four clients.
download_folder_if_not_exists(c, w, dest, remote) ==
  IF dest \in w.dirs \/ dest \in DOMAIN w.files THEN FolderResult("none", NoResult, w)
  ELSE DownloadEach(c, MkdirAll(w, dest), dest, remote, ListBlobs(c, w, remote))

(***************************************************************************)
(* One caller moving a folder to the store and back.                       *)
(***************************************************************************)
InitFolder ==
  /\ env = EmptyEnv
  /\ client \in StoreClients
  /\ store \in {EmptyStore, [o \in {ClientObject(client, SiblingName)} |-> <<120>>],
                [o \in {ClientObject(client, StoredName)} |-> <<121>>],
                [o \in {ClientObject(client, EarlierName)} |-> <<122>>]}
  /\ files = FolderFiles
  /\ dirs = FolderDirs
  /\ last = NoCall
  /\ calls = [p \in Callers |-> Idle]
  /\ result = NoResult
  /\ handles = HandlesOf(client)
  /\ InitRest

\* A folder call's outcome r takes effect and is recorded.
FolderDone(op, arg, src, ow, kw, r) ==
  /\ store' = r.w.store
  /\ files' = r.w.files
  /\ dirs' = r.w.dirs
  /\ last' = Call(op, arg, src, <<>>, ow, kw, r.exc, <<>>, <<>>, <<>>, NoObject)
  /\ result' = r.urls
  /\ UNCHANGED <<env, client, calls, handles, otherVars>>

UploadFolder ==
  \E as_path \in BOOLEAN, remote \in {None, RemoteS}, ow \in BOOLEAN,
     order \in Orders(FilesUnder(World, SrcDir)) :
    FolderDone("upload_folder", remote, SrcDir, ow, ArgType(as_path),
               upload_folder(client, World, SrcDir, as_path, remote, ow, order))

DownloadFolder ==
  \E dest \in {NewDir, ExistingDir} :
    FolderDone("download_folder_if_not_exists", RemoteS, dest, TRUE, NoKwargs,
               download_folder_if_not_exists(client, World, dest, RemoteS))

NextFolder ==
  \/ UploadFolder
  \/ DownloadFolder

SpecFolder == InitFolder /\ [][NextFolder]_vars

(***************************************************************************)
(* Properties of the folder operations (SpecFolder).                       *)
(***************************************************************************)
\* The blob name a file p of folder dir belongs under: the remote folder (the
\* folder's base name when none is given), "/", the path of p below dir.
FolderBlobName(dir, remote, p) == PathJoin(PyOr(remote, PathName(dir)), RelPath(p, dir))

\* The objects that name denotes on client c: the name itself, or the name
\* under the client's container prefix.
FolderTargets(c, name) ==
  {ClientObject(c, name)}
    \cup (IF c.kind = "gcp" THEN {GcsObject(c.bucket_name, GCPPrefixedBlobName(c, name))}
          ELSE {})

\* The URL the client gives for object o.
UrlOfObject(c, o) == IF c.kind = "gcp" THEN GCPUrlOf(c, o.key) ELSE AzureFormatUrl(c, o.key)

\* C17: upload_folder(local_dir, remote_prefix), with local_dir a str or a
\* Path, returns on every client; afterwards each regular file below
\* local_dir is stored as one blob named remote_prefix/relative path
\* (remote_prefix defaulting to the folder's base name), no other blob was
\* added, and the list returned holds one URL per file, each file's among them.
C17_FolderUploaded ==
  (last.op = "upload_folder" /\ last.ow)
    => /\ last.exc = "none"
       /\ Len(result) = Cardinality(FilesUnder(World, last.src))
       /\ \A p \in FilesUnder(World, last.src) :
            \E o \in FolderTargets(client, FolderBlobName(last.src, last.arg, p)) :
              /\ o \in DOMAIN store
              /\ store[o] = files[p]
              /\ \E i \in 1..Len(result) : result[i] = UrlOfObject(client, o)
       /\ (DOMAIN store) \ {ClientObject(client, SiblingName)}
            \subseteq UNION {FolderTargets(client, FolderBlobName(last.src, last.arg, p)) :
                               p \in FilesUnder(World, last.src)}

\* C18: on every client, an upload_folder(src_dir, remote_prefix) that
\* returned, followed by download_folder_if_not_exists(target_dir,
\* remote_prefix) for a target that does not exist yet, leaves under
\* target_dir every relative file path of src_dir with the same bytes.
C18_FolderRoundTrip ==
  [][(/\ last.op = "upload_folder"
      /\ last.exc = "none"
      /\ last.ow
      /\ last'.op = "download_folder_if_not_exists"
      /\ last'.src \notin dirs
      /\ last'.arg = PyOr(last.arg, PathName(last.src)))
       => \A p \in FilesUnder(World, last.src) :
               /\ PathJoin(last'.src, RelPath(p, last.src)) \in DOMAIN files'
               /\ files'[PathJoin(last'.src, RelPath(p, last.src))] = files[p]]_vars

\* The names in the client's bucket or container that start with prefix.
NamesStartingWith(c, prefix) ==
  {o.key : o \in {x \in DOMAIN store : x = ClientObject(c, x.key) /\ StartsWith(x.key, prefix)}}

\* C19: download_folder_if_not_exists(local_dir, remote_prefix) returns and
\* changes no file or directory when local_dir exists; when it does not, the
\* call returns, local_dir exists afterwards, and every blob whose name
\* starts with remote_prefix and has a path relative to it is in the file at
\* local_dir joined with that path.
C19_DownloadFolder ==
  [][last'.op = "download_folder_if_not_exists"
       => /\ last'.src \in dirs =>
               (last'.exc = "none" /\ files' = files /\ dirs' = dirs)
          /\ last'.src \notin dirs =>
               /\ last'.exc = "none"
               /\ last'.src \in dirs'
               /\ \A n \in NamesStartingWith(client, last'.arg) :
                    (IsRelativeTo(n, last'.arg) /\ n # last'.arg) =>
                      /\ PathJoin(last'.src, RelPath(n, last'.arg)) \in DOMAIN files'
                      /\ files'[PathJoin(last'.src, RelPath(n, last'.arg))]
                           = store[ClientObject(client, n)]]_vars

(***************************************************************************)
(* The life of a client: credential resolution in the constructors         *)
(* (_get_storage_client, _get_client, get_blob_service_client and          *)
(* get_blob_service_client_async) and close().                             *)
(***************************************************************************)
\* A key file path that exists and one that does not; key files that are and
\* are not a service-account key.
KeyPath == <<"/", "t", "/", "k", "e", "y">>
NoKeyPath == <<"/", "t", "/", "n", "o", "k", "e", "y">>
GoodKey == <<123>>
BadKey == <<0>>

\* Tenant ids: one the credential accepts and one with a character it refuses.
GoodTenant == <<"t", "i", "d", "-", "1">>
BadTenant == <<"t", " ", "i", "d">>
ClientId == <<"c", "i", "d">>
Secret == <<"s", "e", "c">>

\* azure.identity validate_tenant_id: letters, digits, "." and "-" only.
RECURSIVE ValidTenantId(_)
ValidTenantId(s) ==
  IF s = <<>> THEN TRUE
  ELSE (IsAlpha(s[1]) \/ IsDigit(s[1]) \/ s[1] \in {".", "-"}) /\ ValidTenantId(Tail(s))

\* What credential resolution did: the exception it raised ("none": it
\* returned), the source it took, the sources it consulted in order, and
\* whether an ambient (default) credential was to be found.
Resolved(exc, source, tried, ambient) ==
  [exc |-> exc, source |-> source, tried |-> tried, ambient |-> ambient]

\* service_account.Credentials.from_service_account_file(key_path)
GCPKeyFile(w, key_path, ambient) ==
  IF w.files[key_path] = GoodKey THEN Resolved("none", "key_file", <<"key_file">>, ambient)
  ELSE Resolved("ValueError", "none", <<"key_file">>, ambient)

\* google.auth.default(scopes=...)
GCPDefault(ambient) ==
  IF ambient THEN Resolved("none", "default", <<"default">>, ambient)
  ELSE Resolved("DefaultCredentialsError", "none", <<"default">>, ambient)

\* GCPStorageClient._get_storage_client / GCPStorageClientAsync._get_client
GCPCredential(e, w, ambient) ==
  IF Truthy(e["GCP_SERVICE_ACCOUNT_KEY_PATH"])
       /\ (FileExists(w, e["GCP_SERVICE_ACCOUNT_KEY_PATH"])
             \/ e["GCP_SERVICE_ACCOUNT_KEY_PATH"] \in w.dirs)
  THEN IF FileExists(w, e["GCP_SERVICE_ACCOUNT_KEY_PATH"])
       THEN GCPKeyFile(w, e["GCP_SERVICE_ACCOUNT_KEY_PATH"], ambient)
       ELSE Resolved("IsADirectoryError", "none", <<"key_file">>, ambient)
  ELSE GCPDefault(ambient)

\* The three service-principal variables are all set.
HasServicePrincipal(e) ==
  Truthy(e["AZURE_TENANT_ID"]) /\ Truthy(e["AZURE_CLIENT_ID"]) /\ Truthy(e["AZURE_CLIENT_SECRET"])

\* get_blob_service_client / get_blob_service_client_async: the credential
\* objects are only constructed here; ClientSecretCredential checks the tenant
\* id, DefaultAzureCredential() always constructs.
AzureCredential(e, ambient) ==
  IF HasServicePrincipal(e)
  THEN IF ValidTenantId(e["AZURE_TENANT_ID"])
       THEN Resolved("none", "service_principal", <<"service_principal">>, ambient)
       ELSE Resolved("ValueError", "none", <<"service_principal">>, ambient)
  ELSE Resolved("none", "default", <<"default">>, ambient)

\* The class a constructor call names.
ClassName(kind, async) ==
  IF kind = "gcp" THEN (IF async THEN "GCPStorageClientAsync" ELSE "GCPStorageClient")
  ELSE (IF async THEN "AzureBlobServiceClientAsync" ELSE "AzureBlobServiceClient")

ClassNames == {ClassName(k, a) : k \in {"gcp", "azure"}, a \in BOOLEAN}

\* close() on client c holding handles h: the exception raised and the
\* handles afterwards. GCPStorageClient defines no close; the async GCP close
\* is empty; the Azure ones close the service client and the credential.
CloseResult(exc, h) == [exc |-> exc, handles |-> h]

\* A handle after its close(): released if there was one.
Closed(handle) == IF handle = "none" THEN "none" ELSE "closed"

close(c, h) ==
  IF c.kind = "gcp"
  THEN IF c.async THEN CloseResult("none", h) ELSE CloseResult("AttributeError", h)
  ELSE CloseResult("none", [h EXCEPT !.client = Closed(h.client), !.cred = Closed(h.cred)])

\* The environments clients are constructed in: with and without a key file
\* path, with and without the service-principal variables.
LifeEnvs ==
  { [EmptyEnv EXCEPT !["GCP_SERVICE_ACCOUNT_KEY_PATH"] = k, !["AZURE_TENANT_ID"] = t,
                     !["AZURE_CLIENT_ID"] = c, !["AZURE_CLIENT_SECRET"] = Secret] :
      k \in {None, KeyPath, NoKeyPath}, t \in {None, GoodTenant, BadTenant},
      c \in {None, ClientId} }

InitLife ==
  /\ env \in LifeEnvs
  /\ client = NoClient
  /\ store = EmptyStore
  /\ files \in {InitFiles, [p \in {KeyPath} |-> GoodKey], [p \in {KeyPath} |-> BadKey]}
  /\ dirs = InitDirs
  /\ last = NoCall
  /\ calls = [p \in Callers |-> Idle]
  /\ result = NoResult
  /\ handles = NoHandles
  /\ InitRest

\* A constructor call whose credential resolution did cr and whose remaining
\* checks did built: the caller holds the client when both went through.
Constructed(cls, kw, cr, built) ==
  /\ client' = IF cr.exc = "none" THEN built.client ELSE NoClient
  /\ handles' = IF cr.exc = "none" /\ built.exc = "none"
                THEN Handles(cr.source, cr.tried, "open", "open") ELSE NoHandles
  /\ result' = cr
  /\ last' = Call(cls, <<>>, <<>>, <<>>, TRUE, kw, IF cr.exc # "none" THEN cr.exc ELSE built.exc,
                  <<>>, <<>>, <<>>, NoObject)
  /\ UNCHANGED <<env, store, files, dirs, calls, otherVars>>

\* GCPStorageClient(**kw) / GCPStorageClientAsync(**kw)
ConstructGCP ==
  \E async \in BOOLEAN, kw \in GCPConfigs, ambient \in BOOLEAN :
    Constructed(ClassName("gcp", async), kw, GCPCredential(env, World, ambient),
                GCPClientInit(async, kw, env))

\* AzureBlobServiceClient(**kw) / AzureBlobServiceClientAsync(**kw); the
\* arguments name account and container, so no other check of the constructor
\* fails.
ConstructAzure ==
  \E async \in BOOLEAN, kw \in AzureConfigs, ambient \in BOOLEAN :
    Constructed(ClassName("azure", async), kw, AzureCredential(env, ambient),
                AzureClientInit(async, kw, env))

\* client.close()
Close ==
  /\ client # NoClient
  /\ handles' = close(client, handles).handles
  /\ last' = Call("close", <<>>, <<>>, <<>>, TRUE, NoKwargs, close(client, handles).exc,
                  <<>>, <<>>, <<>>, NoObject)
  /\ UNCHANGED <<env, client, store, files, dirs, calls, result, otherVars>>

NextLife ==
  \/ ConstructGCP
  \/ ConstructAzure
  \/ Close

SpecLife == InitLife /\ [][NextLife]_vars

(***************************************************************************)
(* Properties of construction and close (SpecLife).                        *)
(***************************************************************************)
\* C21: on every client, close() returns without error, however often it is
\* called, and leaves the client Closed: its service connection and its
\* credential released.
C21_CloseIdempotent ==
  last.op = "close"
    => /\ last.exc = "none"
       /\ handles.client = "closed"
       /\ handles.cred = "closed"

\* The highest-priority source is there to be tried: the key file path is set
\* and exists, or the three service-principal variables are set.
HigherConfigured(cls) ==
  IF cls \in {"GCPStorageClient", "GCPStorageClientAsync"}
  THEN Truthy(env["GCP_SERVICE_ACCOUNT_KEY_PATH"])
         /\ FileExists(World, env["GCP_SERVICE_ACCOUNT_KEY_PATH"])
  ELSE HasServicePrincipal(env)

\* C23: a constructor uses the first credential source that succeeds: it takes
\* the key file or service principal whenever that is configured and usable,
\* and it gives up with the credential's error only after the default
\* credential has been consulted as well.
C23_FirstCredentialWins ==
  last.op \in ClassNames
    => /\ (result.source = "default" => ~HigherConfigured(last.op))
       /\ (result.exc # "none" => result.tried[Len(result.tried)] = "default")

(***************************************************************************)
(* metrics_handler/prometheus.py (MetricBuilder) and server/common.py      *)
(* (instrument_server).                                                    *)
(*   builders : the MetricBuilder objects made so far, each with its job   *)
(*              name, its registry (0: prometheus_client.REGISTRY, else a  *)
(*              CollectorRegistry of its own) and its metrics dict         *)
(*   apps     : the applications instrumented so far, each with the        *)
(*              builder it was instrumented with and whether it got        *)
(*              /push-metrics                                              *)
(*   global_metric_builder : the module global of server/common.py         *)
(***************************************************************************)
MaxBuilders == 2
MaxApps == 2
MaxValue == 2

MetricNames == {<<"m">>}
ServiceNames == {<<"a">>, <<"b">>}
MetricTypes == {"gauge", "counter", "summary"}
LabelSets == {{}, {"l"}}
JobName == <<"j">>
MultiprocDir == <<"/", "t", "/", "m", "p">>

Metric(id, type, labelnames, value) ==
  [id |-> id, type |-> type, labelnames |-> labelnames, value |-> value]

\* name not in self.metrics
NoMetric == Metric(0, "none", {}, 0)

MetricBuilderOf(job_name, registry, metrics) ==
  [job_name |-> job_name, registry |-> registry, metrics |-> metrics]

\* MetricBuilder.__init__(job_name) as the idx-th builder: the default
\* registry, or a registry of its own when the multiprocess directory is set.
MetricBuilderInit(job_name, e, idx) ==
  MetricBuilderOf(job_name, IF e["PROMETHEUS_MULTIPROC_DIR"] = None THEN 0 ELSE idx,
                  [n \in MetricNames |-> NoMetric])

\* The metrics of builder j: the names in its dict.
Created(bs, j) == {n \in MetricNames : bs[j].metrics[n].type # "none"}

\* The number of metric objects made so far.
RECURSIVE MetricCount(_, _)
MetricCount(bs, j) ==
  IF j = 0 THEN 0 ELSE Cardinality(Created(bs, j)) + MetricCount(bs, j - 1)

\* The registry already holds a collector of that name.
Registered(bs, registry, name) ==
  \E j \in 1..Len(bs) : bs[j].registry = registry /\ name \in Created(bs, j)

\* What a builder method did: the exception raised and the builders after.
MetricResult(exc, bs) == [exc |-> exc, builders |-> bs]

\* A create_metric that makes a new metric object whether the name is in the
\* dict or not.
create_metric_replacing(bs, b, name, label_names, metric_type) ==
  IF metric_type \notin {"counter", "gauge"} THEN MetricResult("ValueError", bs)
  ELSE MetricResult("none",
         [bs EXCEPT ![b].metrics[name] =
            Metric(MetricCount(bs, Len(bs)) + 1, metric_type, label_names, 0)])

\* MetricBuilder.create_metric(name, description, label_names, metric_type)
\* on builder b. Counter(...) and Gauge(...) raise ValueError for a name the
\* registry already holds.
create_metric(bs, b, name, label_names, metric_type) ==
  IF name \in Created(bs, b) THEN MetricResult("none", bs)
  ELSE IF metric_type \notin {"counter", "gauge"} THEN MetricResult("ValueError", bs)
  ELSE IF Registered(bs, bs[b].registry, name) THEN MetricResult("ValueError", bs)
  ELSE MetricResult("none",
         [bs EXCEPT ![b].metrics[name] =
            Metric(MetricCount(bs, Len(bs)) + 1, metric_type, label_names, 0)])

\* The exception of metric.labels(**labels) / metric.inc(value) /
\* metric.set(value) on metric m: labels() wants exactly the metric's label
\* names, a Counter has no set, a metric with label names takes no value
\* itself.
UpdateError(m, labels, increment) ==
  IF labels # {} /\ labels # m.labelnames THEN "ValueError"
  ELSE IF ~increment /\ m.type = "counter" THEN "AttributeError"
  ELSE IF labels = {} /\ m.labelnames # {} THEN "ValueError"
  ELSE "none"

\* MetricBuilder.update_metric(name, value, labels, increment) on builder b
update_metric(bs, b, name, value, labels, increment) ==
  IF name \notin Created(bs, b) THEN MetricResult("KeyError", bs)
  ELSE IF UpdateError(bs[b].metrics[name], labels, increment) # "none"
  THEN MetricResult(UpdateError(bs[b].metrics[name], labels, increment), bs)
  ELSE MetricResult("none",
         [bs EXCEPT ![b].metrics[name].value = IF increment THEN @ + value ELSE value])

\* The update that ends create_or_update_metric, after its create_metric did r.
UpdateCreated(r, b, name, value, labels, increment) ==
  IF r.exc # "none" THEN r
  ELSE update_metric(r.builders, b, name, value, labels, increment)

\* MetricBuilder.create_or_update_metric(name, description, value, labels,
\* increment, metric_type) on builder b
create_or_update_metric(bs, b, name, value, labels, increment, metric_type) ==
  UpdateCreated(IF name \notin Created(bs, b)
                THEN create_metric(bs, b, name, labels, metric_type)
                ELSE MetricResult("none", bs),
                b, name, value, labels, increment)

\* MetricBuilder.get_metrics(): generate_latest(self.registry). The registry
\* yields the metrics registered with it; a registry of the builder's own
\* also carries a MultiProcessCollector, which yields what every metric of
\* the process wrote to the multiprocess directory.
RegistryMetrics(bs, b, j) ==
  { <<n, bs[j].metrics[n].type, bs[j].metrics[n].value,
      IF bs[j].registry = bs[b].registry THEN "registered" ELSE "multiprocess">> :
      n \in Created(bs, j) }

get_metrics(bs, b) ==
  UNION { RegistryMetrics(bs, b, j) :
            j \in {i \in 1..Len(bs) : bs[i].registry = bs[b].registry \/ bs[b].registry # 0} }

\* An HTTP response: its status, the metrics in its body, and the job the
\* metrics were pushed under.
HttpResponse(status, body, job) == [status |-> status, body |-> body, job |-> job]

\* The application instrumented: the builder chosen for it, and whether
\* /push-metrics was registered.
App(builder, push_metrics) == [builder |-> builder, push_metrics |-> push_metrics]

InitServer ==
  /\ env \in {EmptyEnv, [EmptyEnv EXCEPT !["PROMETHEUS_MULTIPROC_DIR"] = MultiprocDir]}
  /\ client = NoClient
  /\ store = EmptyStore
  /\ files = InitFiles
  /\ dirs = InitDirs
  /\ last = NoCall
  /\ calls = [p \in Callers |-> Idle]
  /\ result = NoResult
  /\ handles = NoHandles
  /\ InitRest

\* Two builders of one process, before any metric is made.
InitMetrics ==
  /\ env \in {EmptyEnv, [EmptyEnv EXCEPT !["PROMETHEUS_MULTIPROC_DIR"] = MultiprocDir]}
  /\ client = NoClient
  /\ store = EmptyStore
  /\ files = InitFiles
  /\ dirs = InitDirs
  /\ last = NoCall
  /\ calls = [p \in Callers |-> Idle]
  /\ result = NoResult
  /\ handles = NoHandles
  /\ builders = <<MetricBuilderInit(JobName, env, 1), MetricBuilderInit(JobName, env, 2)>>
  /\ apps = <<>>
  /\ global_metric_builder = NoBuilder

serverVars == <<env, client, store, files, dirs, calls, handles>>

\* MetricBuilder(job_name)
NewMetricBuilder ==
  \E job \in {JobName} :
    /\ Len(builders) < MaxBuilders
    /\ builders' = Append(builders, MetricBuilderInit(job, env, Len(builders) + 1))
    /\ last' = Call("MetricBuilder", job, <<Len(builders) + 1>>, <<>>, TRUE, NoKwargs, "none",
                    <<>>, <<>>, <<>>, NoObject)
    /\ UNCHANGED <<serverVars, result, apps, global_metric_builder>>

\* instrument_server(service_name, app, custom_metric_builder, push_metrics)
\* for a new app, with a builder of the caller's
InstrumentServerCustom ==
  \E name \in ServiceNames, b \in 1..Len(builders), push \in BOOLEAN :
    /\ Len(apps) < MaxApps
    /\ global_metric_builder' = b
    /\ apps' = Append(apps, App(b, push))
    /\ last' = Call("instrument_server", name, <<Len(apps) + 1>>, <<>>, TRUE, NoKwargs, "none",
                    <<>>, <<>>, <<>>, NoObject)
    /\ UNCHANGED <<serverVars, result, builders>>

\* instrument_server(service_name, app, None, push_metrics) for a new app:
\* the builder is made here.
InstrumentServerDefault ==
  \E name \in ServiceNames, push \in BOOLEAN :
    /\ Len(apps) < MaxApps
    /\ Len(builders) < MaxBuilders
    /\ builders' = Append(builders, MetricBuilderInit(name, env, Len(builders) + 1))
    /\ global_metric_builder' = Len(builders) + 1
    /\ apps' = Append(apps, App(Len(builders) + 1, push))
    /\ last' = Call("instrument_server", name, <<Len(apps) + 1>>, <<>>, TRUE, NoKwargs, "none",
                    <<>>, <<>>, <<>>, NoObject)
    /\ UNCHANGED <<serverVars, result>>

\* A builder method's outcome r takes effect and is recorded.
MetricDone(op, b, name, kw, r) ==
  /\ \A n \in MetricNames : r.builders[b].metrics[n].value <= MaxValue
  /\ builders' = r.builders
  /\ last' = Call(op, name, <<b>>, <<>>, TRUE, kw, r.exc, <<>>, <<>>, <<>>, NoObject)
  /\ UNCHANGED <<serverVars, result, apps, global_metric_builder>>

MetricKw(labels, metric_type) == [labels |-> labels, metric_type |-> metric_type]

CreateMetric ==
  \E b \in 1..Len(builders), name \in MetricNames, labels \in LabelSets, t \in MetricTypes :
    MetricDone("create_metric", b, name, MetricKw(labels, t),
               create_metric(builders, b, name, labels, t))

UpdateMetric ==
  \E b \in 1..Len(builders), name \in MetricNames, labels \in LabelSets, inc \in BOOLEAN :
    MetricDone("update_metric", b, name, MetricKw(labels, "none"),
               update_metric(builders, b, name, 1, labels, inc))

CreateOrUpdateMetric ==
  \E b \in 1..Len(builders), name \in MetricNames, labels \in LabelSets, inc \in BOOLEAN,
     t \in MetricTypes :
    MetricDone("create_or_update_metric", b, name, MetricKw(labels, t),
               create_or_update_metric(builders, b, name, 1, labels, inc, t))

\* builder.create_or_update_metric("m", "", 1) by the service's code
SetGauge ==
  \E b \in 1..Len(builders) :
    MetricDone("create_or_update_metric", b, <<"m">>, MetricKw({}, "gauge"),
               create_or_update_metric(builders, b, <<"m">>, 1, {}, FALSE, "gauge"))

\* GET /custom-metrics on app a: the handler reads the module global.
CustomMetrics ==
  \E a \in 1..Len(apps) :
    /\ result' = HttpResponse(200, get_metrics(builders, global_metric_builder), <<>>)
    /\ last' = Call("custom_metrics", <<>>, <<a>>, <<>>, TRUE, NoKwargs,
                    "none", <<>>, <<>>, <<>>, NoObject)
    /\ UNCHANGED <<serverVars, otherVars>>

\* GET /push-metrics on app a, where it is registered: the handler pushes the
\* module global's metrics under its job name; a gateway that cannot be
\* reached makes the response a 500.
PushMetricsRoute ==
  \E a \in 1..Len(apps), reached \in BOOLEAN :
    /\ apps[a].push_metrics
    /\ result' = IF reached
                 THEN HttpResponse(200, get_metrics(builders, global_metric_builder),
                                   builders[global_metric_builder].job_name)
                 ELSE HttpResponse(500, {}, <<>>)
    /\ last' = Call("push_metrics_route", <<>>, <<a>>, <<>>, TRUE, NoKwargs,
                    "none", <<>>, <<>>, <<>>, NoObject)
    /\ UNCHANGED <<serverVars, otherVars>>

NextMetrics ==
  \/ CreateMetric
  \/ UpdateMetric
  \/ CreateOrUpdateMetric

SpecMetrics == InitMetrics /\ [][NextMetrics]_vars

NextServer ==
  \/ NewMetricBuilder
  \/ InstrumentServerCustom
  \/ InstrumentServerDefault
  \/ SetGauge
  \/ CustomMetrics
  \/ PushMetricsRoute

SpecServer == InitServer /\ [][NextServer]_vars

(***************************************************************************)
(* The two variants of a provider's client side by side (Spec).            *)
(***************************************************************************)
\* The client of the other variant built from the same arguments in the same
\* environment.
Twin(c) == [c EXCEPT !.async = ~c.async]

\* The call just made, as the other variant makes it from the same world.
TwinCall(c, w, l) ==
  CASE l.op = "upload_bytes" -> upload_bytes(c, w, l.data, l.arg, l.ow)
    [] l.op = "upload_stream" -> upload_stream(c, w, l.data, l.arg, l.ow)
    [] l.op = "upload_file" -> upload_file(c, w, l.src, l.arg, l.ow)
    [] l.op = "upload_from_url" -> upload_from_url(c, w, l.src, l.arg, l.ow)
    [] l.op = "download_blob_to_bytes" -> download_blob_to_bytes(c, w, l.arg)
    [] l.op = "download_blob_as_text" -> download_blob_as_text(c, w, l.arg)
    [] l.op = "download_blob_to_file" -> download_blob_to_file(c, w, l.arg, l.src)

\* Outcome r is the one call l had, and leaves world w.
SameOutcome(r, l, w) ==
  /\ r.exc = l.exc
  /\ r.url = l.url
  /\ r.data = l.rdata
  /\ r.text = l.text
  /\ r.obj = l.obj
  /\ r.w = w

\* C22: every call of the client has, on the other variant of the same
\* provider started from the same store and files, the same outcome: the same
\* error or value, the same blob addressed, the same store and files after.
C22_VariantsAgree ==
  [][SameOutcome(TwinCall(Twin(client), World, last'), last', World')]_vars

(***************************************************************************)
(* Failure inside a folder transfer (SpecFolder).                          *)
(***************************************************************************)
\* The remote folder upload_folder names the blobs under.
FolderRemote(c, remote, dir) ==
  IF c.kind = "gcp" THEN GCPPrefixedBlobName(c, PyOr(remote, PathName(dir)))
  ELSE PyOr(remote, PathName(dir))

\* The world after the first k files of order were uploaded one after the
\* other, and the upload of file k + 1 from there.
RECURSIVE UploadedFirst(_, _, _, _, _, _, _)
UploadedFirst(c, w, dir, remote, order, k, ow) ==
  IF k = 0 THEN w
  ELSE UploadFolderFile(c, UploadedFirst(c, w, dir, remote, order, k - 1, ow), order[k],
                        PathJoin(FolderRemote(c, remote, dir), RelPath(order[k], dir)), ow).w

UploadOfFile(c, w, dir, remote, order, k, ow) ==
  UploadFolderFile(c, UploadedFirst(c, w, dir, remote, order, k - 1, ow), order[k],
                   PathJoin(FolderRemote(c, remote, dir), RelPath(order[k], dir)), ow)

\* The transfer of one listed blob into dest.
DownloadItem(c, w, dest, remote, name) ==
  IF ~IsRelativeTo(name, remote) THEN R("ValueError", <<>>, <<>>, <<>>, NoObject, w)
  ELSE IF name = RStrip(remote, "/") THEN R("IsADirectoryError", <<>>, <<>>, <<>>, NoObject, w)
  ELSE DownloadFolderBlob(c, MkdirParents(w, PathJoin(dest, RelPath(name, remote))),
                          ClientObject(c, name), PathJoin(dest, RelPath(name, remote)))

\* The world after the first k listed blobs were downloaded one after the
\* other into the directory just made.
RECURSIVE DownloadedFirst(_, _, _, _, _, _)
DownloadedFirst(c, w, dest, remote, names, k) ==
  IF k = 0 THEN MkdirAll(w, dest)
  ELSE DownloadItem(c, DownloadedFirst(c, w, dest, remote, names, k - 1), dest, remote, names[k]).w

DownloadOfBlob(c, w, dest, remote, names, k) ==
  DownloadItem(c, DownloadedFirst(c, w, dest, remote, names, k - 1), dest, remote, names[k])

\* Outcome exc and world w1 are those of transfers 1..n going through in turn
\* (exc "none"), or of transfers 1..k-1 going through and transfer k raising
\* exc, with nothing done after it.
UploadedInTurn(c, w, l, order, exc, w1) ==
  \/ /\ exc = "none"
     /\ \A i \in 1..Len(order) : UploadOfFile(c, w, l.src, l.arg, order, i, l.ow).exc = "none"
     /\ w1 = UploadedFirst(c, w, l.src, l.arg, order, Len(order), l.ow)
  \/ /\ exc # "none"
     /\ \E k \in 1..Len(order) :
          /\ \A i \in 1..(k - 1) : UploadOfFile(c, w, l.src, l.arg, order, i, l.ow).exc = "none"
          /\ UploadOfFile(c, w, l.src, l.arg, order, k, l.ow).exc = exc
          /\ UploadOfFile(c, w, l.src, l.arg, order, k, l.ow).w = w1

DownloadedInTurn(c, w, l, names, exc, w1) ==
  \/ /\ exc = "none"
     /\ \A i \in 1..Len(names) : DownloadOfBlob(c, w, l.src, l.arg, names, i).exc = "none"
     /\ w1 = DownloadedFirst(c, w, l.src, l.arg, names, Len(names))
  \/ /\ exc # "none"
     /\ \E k \in 1..Len(names) :
          /\ \A i \in 1..(k - 1) : DownloadOfBlob(c, w, l.src, l.arg, names, i).exc = "none"
          /\ DownloadOfBlob(c, w, l.src, l.arg, names, k).exc = exc
          /\ DownloadOfBlob(c, w, l.src, l.arg, names, k).w = w1

\* The folder call walks its files: upload_folder given a Path (or on an Azure
\* client), download_folder_if_not_exists into a directory that is not there.
WalksFiles(c, w, l) ==
  \/ l.op = "upload_folder" /\ (c.kind = "azure" \/ l.kw = ArgType(TRUE))
  \/ l.op = "download_folder_if_not_exists" /\ l.src \notin w.dirs

\* C24: a folder call transfers its files one after the other; it returns
\* only when every transfer went through, and when one raises, the call
\* raises that same error with the store and the local files as that
\* transfer left them: the earlier files stay transferred, no later file is
\* touched, nothing is tried again.
C24_FirstFailureAborts ==
  [][WalksFiles(client, World, last')
       => IF last'.op = "upload_folder"
          THEN \E order \in Orders(FilesUnder(World, last'.src)) :
                 UploadedInTurn(client, World, last', order, last'.exc, World')
          ELSE DownloadedInTurn(client, World, last', ListBlobs(client, World, last'.arg),
                                last'.exc, World')]_vars

\* An upload_folder call has failed at its second file: the first file is
\* stored, and stays stored.
C24_AbortedMidway ==
  /\ last.op = "upload_folder"
  /\ ~last.ow
  /\ last.exc \in AlreadyExistsErrors
  /\ ClientObject(client, <<"s", "/", "a">>) \in DOMAIN store
  /\ store[ClientObject(client, <<"s", "/", "a">>)] = <<97>>
  /\ store[ClientObject(client, StoredName)] = <<121>>

\* C25: on a GCP client with a container prefix, an upload_folder that
\* returned has stored each file under the prefix applied once to its name,
\* remote folder/relative path, and has returned the URL of that key.
C25_PrefixOnce ==
  (/\ last.op = "upload_folder"
   /\ last.exc = "none"
   /\ client.kind = "gcp"
   /\ client.container_prefix # <<>>)
    => \A p \in FilesUnder(World, last.src) :
         /\ GcsObject(client.bucket_name,
                      GCPPrefixedBlobName(client, FolderBlobName(last.src, last.arg, p)))
              \in DOMAIN store
         /\ \E i \in 1..Len(result) :
              result[i] = GCPUrlOf(client, GCPPrefixedBlobName(client,
                                             FolderBlobName(last.src, last.arg, p)))

\* C26: a download_folder_if_not_exists that raises after making local_dir
\* leaves local_dir in place; a directory stays once it is there; and a call
\* for a local_dir that is there returns and changes no file, no directory
\* and no blob, whatever is missing below it.
C26_DirectoryIsTheMarker ==
  [][/\ \A d \in dirs : d \in dirs'
     /\ last'.op = "download_folder_if_not_exists"
          => /\ last'.src \in dirs'
             /\ last'.src \in dirs
                  => (last'.exc = "none" /\ files' = files /\ dirs' = dirs /\ store' = store)]_vars

\* A call has returned for a directory that an earlier call made and then
\* failed in (the blob listed first lies outside the folder), and a blob of
\* the folder is still not among the local files.
C26_NeverFetched ==
  /\ last.op = "download_folder_if_not_exists"
  /\ last.exc = "none"
  /\ last.src = NewDir
  /\ ClientObject(client, EarlierName) \in DOMAIN store
  /\ ClientObject(client, <<"s", "/", "a">>) \in DOMAIN store
  /\ PathJoin(NewDir, <<"a">>) \notin DOMAIN files

(***************************************************************************)
(* The account of an Azure client (SpecFactory).                           *)
(***************************************************************************)
\* C27: an Azure client a factory returned sends its calls to the account
\* whose name is in the URLs it returns, and when the call named a
\* storage_account_name, that is the account, whatever the environment holds.
C27_ExplicitAccountWins ==
  (/\ last.op \in {"get_storage_client", "get_storage_client_async"}
   /\ last.exc = "none"
   /\ client.kind = "azure")
    => /\ client.primary_hostname = client.account_name \o AzureHostSuffix
       /\ Truthy(Arg(last.kw, "storage_account_name"))
            => /\ client.account_name = Arg(last.kw, "storage_account_name")
               /\ client.primary_hostname
                    = Arg(last.kw, "storage_account_name") \o AzureHostSuffix

(***************************************************************************)
(* parse_cloud_url and percent-encoding (SpecParse).                       *)
(***************************************************************************)
\* Field f of a descriptor is unset, or text of the decoded URL.
InCleanUrl(d, f) == d[f] = None \/ Contains(d.clean_url, d[f])

\* C28: the storage_account_name, container and blob parse_cloud_url returns
\* are text of the percent-decoded URL it returns as clean_url.
C28_FieldsFromDecodedUrl ==
  (last.op = "parse_cloud_url" /\ last.exc = "none")
    => /\ InCleanUrl(result, "storage_account_name")
       /\ InCleanUrl(result, "container")
       /\ InCleanUrl(result, "blob")

(***************************************************************************)
(* The metrics endpoints (SpecServer) and the metrics dict (SpecMetrics).  *)
(***************************************************************************)
\* C29: a request to an application's /custom-metrics or /push-metrics is
\* answered from the builder that application was instrumented with: the
\* body holds that builder's metrics, the push goes out under its job name.
C29_EndpointServesItsBuilder ==
  /\ last.op = "custom_metrics"
       => result.body = get_metrics(builders, apps[last.src[1]].builder)
  /\ (last.op = "push_metrics_route" /\ result.status = 200)
       => /\ result.body = get_metrics(builders, apps[last.src[1]].builder)
          /\ result.job = builders[apps[last.src[1]].builder].job_name

\* C30: in every step, each name in a builder's dict keeps its metric object,
\* its type and its label names, so none is replaced or removed; and an
\* update_metric for a name that is not in the dict raises KeyError and
\* leaves every dict as it was.
C30_FirstCreationStays ==
  [][/\ \A b \in 1..Len(builders) : \A n \in Created(builders, b) :
          /\ builders'[b].metrics[n].id = builders[b].metrics[n].id
          /\ builders'[b].metrics[n].type = builders[b].metrics[n].type
          /\ builders'[b].metrics[n].labelnames = builders[b].metrics[n].labelnames
     /\ (last'.op = "update_metric" /\ last'.arg \notin Created(builders, last'.src[1]))
          => (last'.exc = "KeyError" /\ builders' = builders)]_vars

\* create_metric has returned for a name that is in the dict with another
\* type and other label names than the call gave: nothing changed.
C30_SecondCreationIgnored ==
  /\ last.op = "create_metric"
  /\ last.exc = "none"
  /\ last.kw.metric_type = "counter"
  /\ builders[last.src[1]].metrics[last.arg].type = "gauge"
  /\ builders[last.src[1]].metrics[last.arg].labelnames # last.kw.labels
  /\ builders[last.src[1]].metrics[last.arg].value > 0
====
